---- MODULE Spec2Model ----
(***************************************************************************)
(* A model of the readConfig program (readConfig and the main that calls   *)
(* it): the file system it opens "config.json" in, the *os.File objects    *)
(* os.Open creates, the error values os.Open and fmt.Errorf build, the     *)
(* deferred-call stack of each activation and the lines main prints.       *)
(***************************************************************************)
EXTENDS Integers, Sequences, FiniteSets, TLC

\* Number of activations of main (each calls readConfig once).
NumCallers == 2

Callers == 1..NumCallers

\* ConfigPath as a bug would have it: another file's name.
ConfigPathOther == "other.json"

\* The name readConfig passes to os.Open.
ConfigPath == "config.json"
\* The names the file system knows; "other.json" is a file readConfig must
\* leave alone.
Paths == {"config.json", "other.json"}
\* What a name can be in the file system: a readable file, no file at all,
\* or a file the process has no permission to read.
FileStates == {"readable", "absent", "noperm"}

VARIABLES
    fs,        \* Paths -> FileStates: the file system
    arg,       \* the path main, as the caller of the contract's load(path), names
    pc,        \* Callers -> position of the activation
    file,      \* Callers -> readConfig's local `file`: NoFile (nil) or the id of a File
    err,       \* Callers -> readConfig's local `err`
    defers,    \* Callers -> stack of deferred calls of the readConfig activation
    ret,       \* Callers -> the value readConfig's return statement has set
    mainErr,   \* Callers -> main's local `err`
    files,     \* the set of the *os.File objects os.Open has created
    opened,    \* Callers -> sequence of the names of the open attempts of the call
    events,    \* Callers -> sequence of what the call did, in order
    seen,      \* Callers -> the state of "config.json" when the call's
               \* os.Open looked at it, "none" before
    stdout     \* sequence of [by, fn, line]: the lines printed to standard
               \* output, with the activation and the function that printed

vars == <<fs, arg, pc, file, err, defers, ret, mainErr, files,
          opened, events, seen, stdout>>

\* The state of the run of one of the notes' defer / panic snippets.
VARIABLES
    prog,      \* the snippet: its name, inputs and functions
    stack,     \* the call stack: the frames of the active functions, top last
    panicv,    \* the value of the panic in progress, or NoPanic
    output,    \* the lines printed so far
    status,    \* "running", "exited" (main returned) or "crashed"
    result     \* the value the entry function handed to its caller, if any

deferVars == <<prog, stack, panicv, output, status, result>>

\* The state of the calls of process() of the early-return pattern.
VARIABLES
    ppc,       \* call -> position in process()
    pdata,     \* call -> process's local `data`
    perr,      \* call -> process's `err` (of load, then of validate)
    pret,      \* call -> the error process returned
    pcalls     \* call -> the calls of load, validate and save it made, in
               \* order, each with its argument and what it returned

processVars == <<ppc, pdata, perr, pret, pcalls>>

\* The state of a channel and of the goroutines that use it.
VARIABLES
    chcap,     \* the capacity the channel was made with (0: unbuffered)
    chbuf,     \* the values in the channel's buffer, oldest first
    sendq,     \* the senders blocked on the channel, with their values
    recvq,     \* the receivers blocked on the channel
    chclosed,  \* whether close(ch) has been executed
    gstate,    \* goroutine -> "ready", "send_blocked", "recv_blocked",
               \*              "exited" or "panicked"
    gops,      \* goroutine -> the channel operations it has started
    glast,     \* goroutine -> the v, ok of its last receive, until it uses them
    chout,     \* the values printed by the loops over the channel
    nsent,     \* the sends that have completed
    nrecv      \* the receives that have completed with a value sent

chanVars == <<chcap, chbuf, sendq, recvq, chclosed, gstate, gops, glast,
              chout, nsent, nrecv>>

\* The state of the WaitGroup pattern: main, wg and the goroutines it starts.
VARIABLES
    wgn,       \* the number of goroutines main starts
    wgcount,   \* the counter of wg
    wgmain,    \* where main is: "add", "go", "wait", "waiting", "returned"
    wgstarted, \* the number of goroutines main has started
    wk         \* goroutine -> "none", "running", "returning" or "exited"

wgVars == <<wgn, wgcount, wgmain, wgstarted, wk>>

\* The state of the goroutines that each execute x++ on the shared x.
VARIABLES
    synced,    \* whether each x++ is enclosed in mu.Lock() and mu.Unlock()
    sharedX,   \* the shared variable x
    mu,        \* the goroutine that holds mu, 0 when it is unlocked
    ipc,       \* goroutine -> "lock", "load", "store", "unlock" or "done"
    itmp,      \* goroutine -> the value of x it loaded
    idone      \* goroutine -> the x++ it has completed

incVars == <<synced, sharedX, mu, ipc, itmp, idone>>

\* The state of the program whose main only starts goroutines that print.
VARIABLES
    hn,        \* the number of go statements in main
    hmain,     \* where main is: "go", "return" or "exited"
    hstarted,  \* the number of goroutines main has created
    hg,        \* goroutine -> "none", "runnable", "running", "printed", "killed"
    hout       \* the lines printed so far

helloVars == <<hn, hmain, hstarted, hg, hout>>

\* The state of the goroutines that write to the shared map m.
VARIABLES
    msynced,   \* whether each write is enclosed in mu.Lock() and mu.Unlock()
    mapm,      \* the map m: key -> value, 0 for a key that is not in it
    mwriting,  \* the map's flag "a write is in progress"
    mmu,       \* the goroutine that holds mu, 0 when it is unlocked
    mpc,       \* goroutine -> "lock", "check", "flag", "store", "finish",
               \*              "unlock" or "done"
    mdone,     \* goroutine -> the writes it has completed
    mfatal     \* whether the program died of "concurrent map writes"

mapVars == <<msynced, mapm, mwriting, mmu, mpc, mdone, mfatal>>

\* The state of the counter closures.
VARIABLES
    cells,     \* the count variables created so far: their values
    cenv,      \* closure -> the count variable it captured
    creturns   \* closure -> the values its calls have returned, in order

counterVars == <<cells, cenv, creturns>>

\* The state of the slices i, j and g and of the arrays under them.
VARIABLES
    arrays,    \* the arrays allocated so far: their elements
    svars,     \* slice variable -> its array, len and cap, or NoSlice
    sops       \* the appends executed so far: destination, source, value

sliceVars == <<arrays, svars, sops>>

\* The state of the layout of a struct type.
VARIABLES
    sfields,   \* the types of the struct's fields, in declaration order
    soffsets,  \* the offsets of the fields laid out so far
    ssize      \* unsafe.Sizeof of the struct, NoSize until it is known

layoutVars == <<sfields, soffsets, ssize>>

\* The variables of the snippets, which readConfig and main leave alone.
snippetVars == <<deferVars, processVars, chanVars, wgVars, incVars, helloVars, mapVars, counterVars, sliceVars, layoutVars>>

\* No panic in progress (the nil interface value recover() returns).
NoPanic == "<nil>"

\* No value has been handed to the caller of the entry function.
NoResult == -1

\* No snippet of the defer notes is running.
DeferIdle ==
    /\ prog = [name |-> "none"]
    /\ stack = <<>>
    /\ panicv = NoPanic
    /\ output = <<>>
    /\ status = "exited"
    /\ result = NoResult

\* No call of process() is running.
ProcessIdle ==
    /\ ppc = <<>>
    /\ pdata = <<>>
    /\ perr = <<>>
    /\ pret = <<>>
    /\ pcalls = <<>>

\* No channel has been made.
ChanIdle ==
    /\ chcap = 0
    /\ chbuf = <<>>
    /\ sendq = <<>>
    /\ recvq = <<>>
    /\ chclosed = FALSE
    /\ gstate = <<>>
    /\ gops = <<>>
    /\ glast = <<>>
    /\ chout = <<>>
    /\ nsent = 0
    /\ nrecv = 0

\* The WaitGroup pattern is not running.
WgIdle ==
    /\ wgn = 0
    /\ wgcount = 0
    /\ wgmain = "none"
    /\ wgstarted = 0
    /\ wk = <<>>

\* No goroutine increments x.
IncIdle ==
    /\ synced = FALSE
    /\ sharedX = 0
    /\ mu = 0
    /\ ipc = <<>>
    /\ itmp = <<>>
    /\ idone = <<>>

\* The printing program is not running.
HelloIdle ==
    /\ hn = 0
    /\ hmain = "none"
    /\ hstarted = 0
    /\ hg = <<>>
    /\ hout = <<>>

\* No goroutine writes to the map.
MapIdle ==
    /\ msynced = FALSE
    /\ mapm = <<>>
    /\ mwriting = FALSE
    /\ mmu = 0
    /\ mpc = <<>>
    /\ mdone = <<>>
    /\ mfatal = FALSE

\* counter() has not been called.
CounterIdle ==
    /\ cells = <<>>
    /\ cenv = <<>>
    /\ creturns = <<>>

\* No slice has been made.
SliceIdle ==
    /\ arrays = <<>>
    /\ svars = <<>>
    /\ sops = <<>>

\* No struct is being laid out.
LayoutIdle ==
    /\ sfields = <<>>
    /\ soffsets = <<>>
    /\ ssize = 0

\* The snippets are not running.
SnippetsIdle == DeferIdle /\ ProcessIdle /\ ChanIdle /\ WgIdle /\ IncIdle /\ HelloIdle /\ MapIdle /\ CounterIdle /\ SliceIdle /\ LayoutIdle

----------------------------------------------------------------------------
\* Error values

\* The nil error.
NilErr == [type |-> "nil"]

\* syscall.Errno.Error(): the platform's text of an errno.
ErrnoText(errno) ==
    CASE errno = "ENOENT" -> "no such file or directory"
      [] errno = "EACCES" -> "permission denied"

\* The *fs.PathError os.Open returns on failure.
PathError(op, path, errno) ==
    [type |-> "PathError", op |-> op, path |-> path, errno |-> errno]

\* The native not-found error os.ErrNotExist.
ErrNotExist == [type |-> "sentinel", msg |-> "file does not exist"]

\* The error a bare syscall.Errno is.
Errno(errno) == [type |-> "Errno", errno |-> errno]

\* err.Error(): the text of an error value.
ErrorText(e) ==
    CASE e.type = "PathError" -> e.op \o " " \o e.path \o ": " \o ErrnoText(e.errno)
      [] e.type = "Errno" -> ErrnoText(e.errno)
      [] e.type = "sentinel" -> e.msg
      [] e.type = "errorString" -> e.msg
      [] e.type = "wrapError" -> e.msg
      [] e.type = "nil" -> "<nil>"

\* fmt.Errorf(prefix + "%w", e): the text, and e kept as the cause.
ErrorfW(prefix, e) ==
    [type |-> "wrapError", msg |-> prefix \o ErrorText(e), cause |-> e]

\* fmt.Errorf(prefix + "%s", e): the text of e formatted into a new error
\* that has no Unwrap method.
ErrorfS(prefix, e) ==
    [type |-> "errorString", msg |-> prefix \o ErrorText(e)]

\* errors.Unwrap(e): the error e wraps, or nil.
Unwrap(e) ==
    CASE e.type = "wrapError" -> e.cause
      [] e.type = "PathError" -> Errno(e.errno)
      [] OTHER -> NilErr

\* e.Is(target) of the types that have an Is method: syscall.Errno matches
\* the os sentinel of its kind.
IsMethod(e, target) ==
    /\ e.type = "Errno"
    /\ \/ e.errno = "ENOENT" /\ target = ErrNotExist

\* errors.Is(e, target): walk the Unwrap chain.
RECURSIVE ErrorsIs(_, _)
ErrorsIs(e, target) ==
    IF e = NilErr THEN FALSE
    ELSE IF e = target \/ IsMethod(e, target) THEN TRUE
    ELSE ErrorsIs(Unwrap(e), target)

----------------------------------------------------------------------------
\* os.Open and (*os.File).Close

\* The errno os.Open fails with on a name in state st ("" when it succeeds).
OpenErrno(st) ==
    CASE st = "absent" -> "ENOENT"
      [] st = "noperm" -> "EACCES"
      [] OTHER -> ""

\* The nil *os.File.
NoFile == <<>>

\* os.Open as a bug would have it: a file that is open cannot be opened again.
osOpenExclusive(f, fl, name, id) ==
    IF OpenErrno(f[name]) = "" /\ ~\E g \in fl : g.name = name /\ ~g.closed
    THEN [file |-> id, err |-> NilErr,
          files |-> fl \cup {[id |-> id, name |-> name, closed |-> FALSE, closes |-> 0]}]
    ELSE [file |-> NoFile,
          err |-> PathError("open", name,
                    IF OpenErrno(f[name]) = "" THEN "EACCES" ELSE OpenErrno(f[name])),
          files |-> fl]

\* os.Open(name) in file system f with File objects fl; id is the identity
\* of the File object a success creates. The pair (file, err) it returns and
\* the File objects afterwards.
osOpen(f, fl, name, id) ==
    IF OpenErrno(f[name]) = ""
    THEN [file |-> id, err |-> NilErr,
          files |-> fl \cup {[id |-> id, name |-> name, closed |-> FALSE, closes |-> 0]}]
    ELSE [file |-> NoFile, err |-> PathError("open", name, OpenErrno(f[name])),
          files |-> fl]

\* file.Close() on the File object h: it is closed and its release counter
\* counts. (On the nil File there is nothing to close.)
osClose(fl, h) ==
    {IF g.id = h THEN [g EXCEPT !.closed = TRUE, !.closes = @ + 1] ELSE g : g \in fl}

\* The File object with identity h.
File(h) == CHOOSE g \in files : g.id = h

\* The activation whose os.Open created the File object h.
Opener(h) == h[1]

\* The handles that are open.
OpenHandles == {g.id : g \in {x \in files : ~x.closed}}

----------------------------------------------------------------------------
Init ==
    /\ fs \in [Paths -> FileStates]
    /\ arg \in Paths
    /\ pc = [c \in Callers |-> "main_call"]
    /\ file = [c \in Callers |-> NoFile]
    /\ err = [c \in Callers |-> NilErr]
    /\ defers = [c \in Callers |-> <<>>]
    /\ ret = [c \in Callers |-> NilErr]
    /\ mainErr = [c \in Callers |-> NilErr]
    /\ files = {}
    /\ opened = [c \in Callers |-> <<>>]
    /\ events = [c \in Callers |-> <<>>]
    /\ seen = [c \in Callers |-> "none"]
    /\ stdout = <<>>
    /\ SnippetsIdle

\* readConfig and main are not running (the snippets run on their own).
RcIdle ==
    /\ fs = [p \in Paths |-> "absent"]
    /\ arg = ConfigPath
    /\ pc = [c \in Callers |-> "done"]
    /\ file = [c \in Callers |-> NoFile]
    /\ err = [c \in Callers |-> NilErr]
    /\ defers = [c \in Callers |-> <<>>]
    /\ ret = [c \in Callers |-> NilErr]
    /\ mainErr = [c \in Callers |-> NilErr]
    /\ files = {}
    /\ opened = [c \in Callers |-> <<>>]
    /\ events = [c \in Callers |-> <<>>]
    /\ seen = [c \in Callers |-> "none"]
    /\ stdout = <<>>

\* The environment creates, removes or protects a file.
FsChange ==
    /\ \E p \in Paths, st \in FileStates :
         /\ fs[p] # st
         /\ fs' = [fs EXCEPT ![p] = st]
    /\ UNCHANGED <<arg, pc, file, err, defers, ret, mainErr, files, opened,
                   events, stdout>>
    /\ UNCHANGED seen
    /\ UNCHANGED snippetVars

\* main: err := readConfig()   -- the call enters readConfig.
mainCall(c) ==
    /\ pc[c] = "main_call"
    /\ pc' = [pc EXCEPT ![c] = "rc_open"]
    /\ UNCHANGED <<fs, arg, file, err, defers, ret, mainErr, files,
                   opened, events, stdout>>
    /\ UNCHANGED seen
    /\ UNCHANGED snippetVars

\* The context readConfig adds to a failed open.
Context == "opening config file"

\* Wrap as a bug would have it: errors.New("opening config file"), the cause
\* left out of the text.
WrapContextOnly(e) == [type |-> "errorString", msg |-> Context]

\* readConfig line 10: fmt.Errorf("opening config file: %s", err).
Wrap(e) == ErrorfS(Context \o ": ", e)

\* rcOpen as a bug would have it: when "config.json" cannot be opened a
\* fallback file is opened instead, and the failure is still reported.
rcOpenFallback(c) ==
    /\ pc[c] = "rc_open"
    /\ LET r == osOpen(fs, files, ConfigPath, <<c, Len(opened[c]) + 1>>)
           q == osOpen(fs, files, "other.json", <<c, Len(opened[c]) + 1>>) IN
         /\ file' = [file EXCEPT ![c] = IF r.err = NilErr THEN r.file ELSE q.file]
         /\ err' = [err EXCEPT ![c] = r.err]
         /\ files' = IF r.err = NilErr THEN r.files ELSE q.files
    /\ opened' = [opened EXCEPT ![c] = Append(@, ConfigPath)]
    /\ events' = [events EXCEPT ![c] = Append(@, "open")]
    /\ pc' = [pc EXCEPT ![c] = "rc_check"]
    /\ UNCHANGED <<fs, arg, defers, ret, mainErr, stdout>>
    /\ seen' = [seen EXCEPT ![c] = fs[ConfigPath]]
    /\ UNCHANGED snippetVars

\* readConfig line 8: file, err := os.Open("config.json").
rcOpen(c) ==
    /\ pc[c] = "rc_open"
    /\ LET r == osOpen(fs, files, ConfigPath, <<c, Len(opened[c]) + 1>>) IN
         /\ file' = [file EXCEPT ![c] = r.file]
         /\ err' = [err EXCEPT ![c] = r.err]
         /\ files' = r.files
    /\ opened' = [opened EXCEPT ![c] = Append(@, ConfigPath)]
    /\ events' = [events EXCEPT ![c] = Append(@, "open")]
    /\ pc' = [pc EXCEPT ![c] = "rc_check"]
    /\ UNCHANGED <<fs, arg, defers, ret, mainErr, stdout>>
    /\ seen' = [seen EXCEPT ![c] = fs[ConfigPath]]
    /\ UNCHANGED snippetVars

\* rcFail as a bug would have it: file.Close() is called on the failure
\* path too.
rcFailClosing(c) ==
    /\ pc[c] = "rc_check"
    /\ err[c] # NilErr
    /\ ret' = [ret EXCEPT ![c] = Wrap(err[c])]
    /\ events' = [events EXCEPT ![c] = Append(@, "close")]
    /\ pc' = [pc EXCEPT ![c] = "rc_exit"]
    /\ UNCHANGED <<fs, arg, file, err, defers, mainErr, files,
                   opened, stdout>>
    /\ UNCHANGED seen
    /\ UNCHANGED snippetVars

\* rcFail as a bug would have it: the error is logged as well as returned.
rcFailLogging(c) ==
    /\ pc[c] = "rc_check"
    /\ err[c] # NilErr
    /\ ret' = [ret EXCEPT ![c] = Wrap(err[c])]
    /\ stdout' = Append(stdout, [by |-> c, fn |-> "readConfig",
                                  line |-> ErrorText(Wrap(err[c]))])
    /\ pc' = [pc EXCEPT ![c] = "rc_exit"]
    /\ UNCHANGED <<fs, arg, file, err, defers, mainErr, files,
                   opened, events>>
    /\ UNCHANGED seen
    /\ UNCHANGED snippetVars

\* rcFail as a bug would have it: the open is tried again after a failure.
rcFailRetry(c) ==
    /\ pc[c] = "rc_check"
    /\ err[c] # NilErr
    /\ pc' = [pc EXCEPT ![c] = "rc_open"]
    /\ UNCHANGED <<fs, arg, file, err, defers, ret, mainErr, files,
                   opened, events, stdout>>
    /\ UNCHANGED seen
    /\ UNCHANGED snippetVars

\* readConfig lines 9-11: if err != nil { return fmt.Errorf(...) }: the
\* return statement sets the result; the activation then exits.
rcFail(c) ==
    /\ pc[c] = "rc_check"
    /\ err[c] # NilErr
    /\ ret' = [ret EXCEPT ![c] = Wrap(err[c])]
    /\ pc' = [pc EXCEPT ![c] = "rc_exit"]
    /\ UNCHANGED <<fs, arg, file, err, defers, mainErr, files,
                   opened, events, stdout>>
    /\ UNCHANGED seen
    /\ UNCHANGED snippetVars

\* rcDefer as a bug would have it: the defer statement is missing.
rcDeferMissing(c) ==
    /\ pc[c] = "rc_check"
    /\ err[c] = NilErr
    /\ pc' = [pc EXCEPT ![c] = "rc_return"]
    /\ UNCHANGED <<fs, arg, file, err, defers, ret, mainErr, files,
                   opened, events, stdout>>
    /\ UNCHANGED seen
    /\ UNCHANGED snippetVars

\* rcDefer as a bug would have it: `file` is a variable the activations
\* share, so the deferred Close may get a handle another activation opened.
rcDeferSharedFile(c) ==
    /\ pc[c] = "rc_check"
    /\ err[c] = NilErr
    /\ \E h \in OpenHandles :
         defers' = [defers EXCEPT ![c] = Append(@, [fn |-> "Close", recv |-> h])]
    /\ pc' = [pc EXCEPT ![c] = "rc_return"]
    /\ UNCHANGED <<fs, arg, file, err, ret, mainErr, files, opened,
                   events, stdout>>
    /\ UNCHANGED seen
    /\ UNCHANGED snippetVars

\* readConfig lines 9 and 12: err is nil, so defer file.Close(): the call is
\* pushed with its receiver evaluated now.
rcDefer(c) ==
    /\ pc[c] = "rc_check"
    /\ err[c] = NilErr
    /\ defers' = [defers EXCEPT ![c] = Append(@, [fn |-> "Close", recv |-> file[c]])]
    /\ pc' = [pc EXCEPT ![c] = "rc_return"]
    /\ UNCHANGED <<fs, arg, file, err, ret, mainErr, files, opened,
                   events, stdout>>
    /\ UNCHANGED seen
    /\ UNCHANGED snippetVars

\* readConfig line 13: return nil.
rcReturn(c) ==
    /\ pc[c] = "rc_return"
    /\ ret' = [ret EXCEPT ![c] = NilErr]
    /\ pc' = [pc EXCEPT ![c] = "rc_exit"]
    /\ UNCHANGED <<fs, arg, file, err, defers, mainErr, files,
                   opened, events, stdout>>
    /\ UNCHANGED seen
    /\ UNCHANGED snippetVars

\* After the return statement: the deferred calls run, last pushed first.
rcRunDeferred(c) ==
    /\ pc[c] = "rc_exit"
    /\ defers[c] # <<>>
    /\ LET d == defers[c][Len(defers[c])] IN
         /\ files' = osClose(files, d.recv)
         /\ events' = [events EXCEPT ![c] = Append(@, "close")]
    /\ defers' = [defers EXCEPT ![c] = SubSeq(@, 1, Len(@) - 1)]
    /\ UNCHANGED <<fs, arg, pc, file, err, ret, mainErr, opened,
                   stdout>>
    /\ UNCHANGED seen
    /\ UNCHANGED snippetVars

\* rcExit as a bug would have it: control returns to main first and the
\* pending deferred calls run afterwards.
rcExitBeforeDeferred(c) ==
    /\ pc[c] = "rc_exit"
    /\ mainErr' = [mainErr EXCEPT ![c] = ret[c]]
    /\ events' = [events EXCEPT ![c] =
                    IF defers[c] = <<>> THEN Append(@, "return")
                    ELSE Append(Append(@, "return"), "close")]
    /\ files' = IF defers[c] = <<>> THEN files
                ELSE osClose(files, defers[c][Len(defers[c])].recv)
    /\ defers' = [defers EXCEPT ![c] = <<>>]
    /\ pc' = [pc EXCEPT ![c] = "main_check"]
    /\ UNCHANGED <<fs, arg, file, err, ret, opened, stdout>>
    /\ UNCHANGED seen
    /\ UNCHANGED snippetVars

\* No deferred call is left: control returns to main, whose err receives
\* the result (main line 17).
rcExit(c) ==
    /\ pc[c] = "rc_exit"
    /\ defers[c] = <<>>
    /\ mainErr' = [mainErr EXCEPT ![c] = ret[c]]
    /\ events' = [events EXCEPT ![c] = Append(@, "return")]
    /\ pc' = [pc EXCEPT ![c] = "main_check"]
    /\ UNCHANGED <<fs, arg, file, err, defers, ret, files, opened,
                   stdout>>
    /\ UNCHANGED seen
    /\ UNCHANGED snippetVars

\* fmt.Println("Error:", err): the operands separated by a space.
PrintlnError(e) == "Error:" \o " " \o ErrorText(e)

\* mainCheck as a bug would have it: the line is printed whatever err is.
mainCheckAlways(c) ==
    /\ pc[c] = "main_check"
    /\ stdout' = Append(stdout, [by |-> c, fn |-> "main",
                                  line |-> PrintlnError(mainErr[c])])
    /\ pc' = [pc EXCEPT ![c] = "done"]
    /\ UNCHANGED <<fs, arg, file, err, defers, ret, mainErr, files,
                   opened, events>>
    /\ UNCHANGED seen
    /\ UNCHANGED snippetVars

\* main lines 18-20: if err != nil { fmt.Println("Error:", err) }.
mainCheck(c) ==
    /\ pc[c] = "main_check"
    /\ stdout' = IF mainErr[c] # NilErr
                 THEN Append(stdout, [by |-> c, fn |-> "main",
                                      line |-> PrintlnError(mainErr[c])])
                 ELSE stdout
    /\ pc' = [pc EXCEPT ![c] = "done"]
    /\ UNCHANGED <<fs, arg, file, err, defers, ret, mainErr, files,
                   opened, events>>
    /\ UNCHANGED seen
    /\ UNCHANGED snippetVars

\* One step of activation c.
Step(c) ==
    \/ mainCall(c)
    \/ rcOpen(c)
    \/ rcFail(c)
    \/ rcDefer(c)
    \/ rcReturn(c)
    \/ rcRunDeferred(c)
    \/ rcExit(c)
    \/ mainCheck(c)

Next == FsChange \/ \E c \in Callers : Step(c)

Spec == Init /\ [][Next]_vars

\* The scheduler runs every activation that can take a step.
FairSpec == Spec /\ \A c \in Callers : WF_vars(Step(c))

----------------------------------------------------------------------------
\* What the claims speak of

\* readConfig has returned to main: its result is observable to the caller.
Returned(c) == pc[c] \in {"main_check", "done"}

\* The open of the call failed / succeeded.
OpenFailed(c) == err[c] # NilErr
OpenSucceeded(c) == file[c] # NoFile

\* The number of times e occurs in the sequence s.
Count(s, e) == Cardinality({i \in 1..Len(s) : s[i] = e})

\* The releases (Close calls) the call has made.
Releases(c) == Count(events[c], "close")

\* C1: when readConfig fails because the file does not exist, the error main
\* receives still identifies the native not-found error: errors.Is(err,
\* os.ErrNotExist) succeeds through the wrapper.
C1_CausePreserved ==
    \A c \in Callers :
        (Returned(c) /\ err[c].type = "PathError" /\ err[c].errno = "ENOENT")
            => ErrorsIs(mainErr[c], ErrNotExist)

\* C2 as stated: the release counter equals 1 after any call of readConfig,
\* whether the open succeeded or failed.
C2_ReleasedOnceAnyOutcome ==
    \A c \in Callers : Returned(c) => Releases(c) = 1

\* C2 as amended: after any call of readConfig the release counter equals the
\* number of successful opens of the call: 1 (on the File object too) when
\* the open succeeded, 0 when it failed and there is no handle to release.
C2_ReleasedOncePerOpen ==
    \A c \in Callers :
        Returned(c) =>
            /\ OpenSucceeded(c) => Releases(c) = 1 /\ File(file[c]).closes = 1
            /\ OpenFailed(c) => Releases(c) = 0 /\ file[c] = NoFile

\* C2's case: one call has returned after a successful open and another
\* after a failed one.
C2_Witness ==
    \E c, d \in Callers :
        /\ Returned(c) /\ OpenSucceeded(c)
        /\ Returned(d) /\ OpenFailed(d)

\* C3: whenever the open succeeds, readConfig returns nil and, once the
\* caller has the result, no handle the call opened is still open.
C3_SuccessReleased ==
    \A c \in Callers :
        (Returned(c) /\ ~OpenFailed(c)) =>
            /\ mainErr[c] = NilErr
            /\ OpenSucceeded(c)
            /\ \A h \in OpenHandles : Opener(h) # c

\* C3's case: a call whose open succeeded has returned.
C3_Witness ==
    \E c \in Callers : Returned(c) /\ OpenSucceeded(c) /\ File(file[c]).closed

\* C4: the text of the error readConfig returns is "opening config file",
\* then ": ", then the text of the open error.
C4_TextIsContextAndCause ==
    \A c \in Callers :
        (Returned(c) /\ OpenFailed(c)) =>
            /\ ErrorText(mainErr[c]) = "opening config file" \o ": " \o ErrorText(err[c])
            /\ err[c].errno = "ENOENT" =>
                 ErrorText(mainErr[c]) =
                     "opening config file: open config.json: no such file or directory"
            /\ err[c].errno = "EACCES" =>
                 ErrorText(mainErr[c]) =
                     "opening config file: open config.json: permission denied"

\* C4's case: calls have returned the error of a missing file and of a
\* protected one.
C4_Witness ==
    \E c, d \in Callers :
        /\ Returned(c) /\ OpenFailed(c) /\ err[c].errno = "ENOENT"
        /\ Returned(d) /\ OpenFailed(d) /\ err[d].errno = "EACCES"

\* C5: in every call the release comes after the open and before the result
\* is observable to the caller, on every exit path from the opened state.
C5_CloseBetweenOpenAndReturn ==
    \A c \in Callers :
        /\ \A i \in 1..Len(events[c]) :
             events[c][i] = "close" =>
                 /\ \E j \in 1..(i - 1) : events[c][j] = "open"
                 /\ \A k \in 1..i : events[c][k] # "return"
        /\ (Returned(c) /\ OpenSucceeded(c)) =>
               events[c] = <<"open", "close", "return">>

\* C5's case: a call that opened the file has returned.
C5_Witness ==
    \E c \in Callers : Returned(c) /\ OpenSucceeded(c) /\ Releases(c) = 1

\* C6: a call makes exactly one open attempt and at most one close, never
\* retries, and never closes more than it opened.
C6_OneOpenAtMostOneClose ==
    /\ \A c \in Callers :
        /\ Len(opened[c]) <= 1
        /\ Returned(c) => Len(opened[c]) = 1
        /\ Releases(c) <= IF OpenSucceeded(c) THEN 1 ELSE 0
    /\ \A g \in files : g.closes <= 1
    /\ Cardinality(files) <= NumCallers

\* C6's case: a call has returned after a failed open while another holds
\* its handle closed.
C6_Witness ==
    \E c, d \in Callers :
        /\ Returned(c) /\ OpenFailed(c) /\ Len(opened[c]) = 1
        /\ Returned(d) /\ Releases(d) = 1

\* The lifecycle state of the handle of a call.
Lifecycle(c) ==
    IF Len(opened[c]) = 0 THEN "Unopened"
    ELSE IF file[c] = NoFile THEN "Failed"
    ELSE IF File(file[c]).closed THEN "Closed"
    ELSE "Opened"

\* The lifecycle transitions the state machine allows.
LifecycleEdges ==
    {<<"Unopened", "Opened">>, <<"Unopened", "Failed">>, <<"Opened", "Closed">>}

\* C7: the lifecycle of a call takes only the transitions Unopened->Opened,
\* Unopened->Failed and Opened->Closed (so Failed and Closed are terminal and
\* Closed is entered only from Opened), and every call that reaches Opened
\* eventually reaches Closed.
C7_Lifecycle ==
    /\ [][\A c \in Callers :
            \/ Lifecycle(c)' = Lifecycle(c)
            \/ <<Lifecycle(c), Lifecycle(c)'>> \in LifecycleEdges]_vars
    /\ \A c \in Callers : (Lifecycle(c) = "Opened") ~> (Lifecycle(c) = "Closed")

\* C7's case: one call has ended Closed and another Failed.
C7_Witness ==
    \E c, d \in Callers :
        /\ Returned(c) /\ Lifecycle(c) = "Closed"
        /\ Returned(d) /\ Lifecycle(d) = "Failed"

\* C8: when the open fails readConfig returns the wrapped error at once: no
\* further open, no close, nothing left deferred, and no line written by
\* readConfig itself; every printed line is printed by main, after the
\* return.
C8_FailReturnsWithoutRecovery ==
    /\ \A c \in Callers :
        (OpenFailed(c) /\ pc[c] \in {"rc_exit", "main_check", "done"}) =>
            /\ ret[c] = Wrap(err[c])
            /\ opened[c] = <<ConfigPath>>
            /\ Releases(c) = 0
            /\ defers[c] = <<>>
            /\ Returned(c) => mainErr[c] = ret[c] /\ events[c] = <<"open", "return">>
    /\ \A i \in 1..Len(stdout) :
        /\ stdout[i].fn = "main"
        /\ pc[stdout[i].by] = "done"

\* C8's case: a call whose open failed has returned and main has printed.
C8_Witness ==
    \E c \in Callers :
        /\ pc[c] = "done" /\ OpenFailed(c)
        /\ \E i \in 1..Len(stdout) : stdout[i].by = c

\* A step of activation c.
StepOf(c) == <<pc[c], defers[c]>>' # <<pc[c], defers[c]>>

\* C9: a call that fails at open leaves no partial state: none of its steps
\* changes the set of open handles or creates a File object.
C9_FailLeavesHandlesAlone ==
    [][\A c \in Callers :
          (StepOf(c) /\ OpenFailed(c)') =>
              /\ OpenHandles' = OpenHandles
              /\ files' = files]_vars

\* C9's case: a call has failed at open and returned while another call's
\* handle is open.
C9_Witness ==
    \E c \in Callers : Returned(c) /\ OpenFailed(c) /\ OpenHandles # {}

LinesOf(c) == {i \in 1..Len(stdout) : stdout[i].by = c}

\* C11: main prints the error exactly when readConfig returned a non-nil
\* error, and the one line it prints is "Error:", the added context and the
\* text of the cause; when readConfig succeeded main prints nothing.
C11_MainPrintsIffError ==
    \A c \in Callers :
        /\ pc[c] # "done" => LinesOf(c) = {}
        /\ (pc[c] = "done" /\ mainErr[c] = NilErr) => LinesOf(c) = {}
        /\ (pc[c] = "done" /\ mainErr[c] # NilErr) =>
              /\ Cardinality(LinesOf(c)) = 1
              /\ \A i \in LinesOf(c) :
                    /\ stdout[i].line =
                          "Error: " \o "opening config file" \o ": " \o ErrorText(err[c])
                    /\ stdout[i].line = "Error: " \o ErrorText(mainErr[c])

\* C11's case: one main has ended after a failed readConfig and printed,
\* another after a successful one.
C11_Witness ==
    \E c, d \in Callers :
        /\ pc[c] = "done" /\ mainErr[c] # NilErr /\ LinesOf(c) # {}
        /\ pc[d] = "done" /\ mainErr[d] = NilErr /\ OpenSucceeded(d)

\* C12: with several activations running readConfig concurrently, every
\* handle is owned by the call that opened it: the handle a call holds and
\* the handle its deferred Close will get are its own, a step of a call
\* changes the release counter only of a File that call opened, and once all
\* calls have returned every File has been closed exactly once (closes =
\* successful opens).
C12_HandleOwnedByOneCall ==
    /\ [](\A c \in Callers :
            /\ file[c] # NoFile => Opener(file[c]) = c
            /\ \A i \in 1..Len(defers[c]) : defers[c][i].recv = file[c])
    /\ [][\A c \in Callers :
            StepOf(c) =>
                \A g \in files : \A g2 \in files' :
                    (g2.id = g.id /\ g2.closes # g.closes) => Opener(g.id) = c]_vars
    /\ []((\A c \in Callers : Returned(c)) =>
            /\ \A g \in files : g.closed /\ g.closes = 1
            /\ Cardinality(files) =
                  Cardinality({c \in Callers : OpenSucceeded(c)}))

\* C12's case: one call has just released its handle while the handle of
\* another call is open.
C12_Witness ==
    \E c, d \in Callers :
        /\ c # d
        /\ pc[c] = "rc_exit" /\ Releases(c) = 1
        /\ file[d] \in OpenHandles


\* The outcome of the call of c: the error main got.
Outcome(c) == mainErr[c]

\* C29: readConfig's outcome is determined by the state of "config.json" at
\* its open: two calls that saw the same state return the same outcome (both
\* nil, or both an error with the same text), whatever other calls did
\* before or meanwhile; and no step of a call changes the file system that
\* a later call will see.
C29_OutcomeDeterminedByFile ==
    /\ [](\A c \in Callers : \A d \in Callers :
            Returned(c) /\ Returned(d) /\ seen[c] = seen[d] =>
                /\ Outcome(c) = NilErr <=> Outcome(d) = NilErr
                /\ ErrorText(Outcome(c)) = ErrorText(Outcome(d)))
    /\ [][(\E c \in Callers : Step(c)) => fs' = fs]_vars

\* C29's case: two calls saw "config.json" missing and both returned the
\* same error; since then the file has come into being.
C29_Witness ==
    \E c \in Callers : \E d \in Callers :
        /\ c # d
        /\ Returned(c) /\ Returned(d)
        /\ seen[c] = "absent" /\ seen[d] = "absent"
        /\ Outcome(c) # NilErr /\ Outcome(c) = Outcome(d)
        /\ fs[ConfigPath] = "readable"

----------------------------------------------------------------------------
\* The defer, panic and recover snippets of the notes

\* The most defer statements of one function, and the largest of the small
\* integers x takes.
MaxDefers == 3
MaxVal == 2

\* The values x takes: those of the notes (5, 10, 20) and the small ones.
Values == {5, 10, 20} \cup 0..MaxVal

\* The texts the LIFO snippet prints.
Labels == {"First", "Second", "Third"}

\* The decimal digit d as text.
Digit(d) ==
    CASE d = 0 -> "0" [] d = 1 -> "1" [] d = 2 -> "2" [] d = 3 -> "3"
      [] d = 4 -> "4" [] d = 5 -> "5" [] d = 6 -> "6" [] d = 7 -> "7"
      [] d = 8 -> "8" [] d = 9 -> "9"

\* fmt.Println of an int: its decimal text.
RECURSIVE Itoa(_)
Itoa(n) == IF n < 10 THEN Digit(n) ELSE Itoa(n \div 10) \o Digit(n % 10)

\* The statements of the snippets.
SAssign(v) == [op |-> "assign", val |-> v]               \* x := v, x = v
SDeferPrintlnX == [op |-> "defer_println_x"]             \* defer fmt.Println(x)
SDeferPrintln(t) == [op |-> "defer_println", text |-> t] \* defer fmt.Println("t")
SDeferFunc(b) == [op |-> "defer_func", body |-> b]       \* defer func() { b }()
SPrintln(t) == [op |-> "println", text |-> t]            \* fmt.Println("t")
SPanic(v) == [op |-> "panic", val |-> v]                 \* panic("v")
SReturn(v) == [op |-> "return", val |-> v]               \* return v
SCall(f) == [op |-> "call", fn |-> f]                    \* f()

\* The bodies of the deferred anonymous functions.
BodyPrintlnX == [kind |-> "println_x"]                   \* fmt.Println(x)
BodyIncrX == [kind |-> "incr_x"]                         \* x++
BodyRecover(t) == [kind |-> "recover", prefix |-> t]
    \* if r := recover(); r != nil { fmt.Println(t, r) }

\* Defer.md "Basic Example".
BasicProg ==
    [name |-> "basic", entry |-> "main",
     fns |-> [main |-> <<SDeferPrintln("World"), SPrintln("Hello")>>]]

\* Defer.md "LIFO Behavior": a main of defer fmt.Println statements, one for
\* each text of labels.
LifoProg(labels) ==
    [name |-> "lifo", entry |-> "main", labels |-> labels,
     fns |-> [main |-> [i \in 1..Len(labels) |-> SDeferPrintln(labels[i])]]]

\* Defer.md "Arguments Are Evaluated Immediately":
\* x := v1; defer fmt.Println(x); x = v2.
ArgEvalProg(v1, v2) ==
    [name |-> "argeval", entry |-> "main", v1 |-> v1, v2 |-> v2,
     fns |-> [main |-> <<SAssign(v1), SDeferPrintlnX, SAssign(v2)>>]]

\* Defer.md lines 95-103: x := v1; defer func() { fmt.Println(x) }(); x = v2.
ClosureProg(v1, v2) ==
    [name |-> "closure", entry |-> "main", v1 |-> v1, v2 |-> v2,
     fns |-> [main |-> <<SAssign(v1), SDeferFunc(BodyPrintlnX), SAssign(v2)>>]]

\* Defer.md "With Named Returns": example() (x int) with defer func() { x++ }()
\* and return v.
NamedReturnProg(v) ==
    [name |-> "named", entry |-> "example", v1 |-> v,
     fns |-> [example |-> <<SDeferFunc(BodyIncrX), SReturn(v)>>]]

\* Errors/Readme.md "Panic": a panic nothing recovers.
PanicProg ==
    [name |-> "panic", entry |-> "main",
     fns |-> [main |-> <<SPanic("something unrecoverable happened")>>]]

\* Errors/Readme.md safe().
SafeProg ==
    [name |-> "safe", entry |-> "safe",
     fns |-> [safe |-> <<SDeferFunc(BodyRecover("Recovered:")), SPanic("boom")>>]]

\* Errors/Readme.md safeFunction() and the main that calls it.
SafeFunctionProg ==
    [name |-> "safeFunction", entry |-> "main",
     fns |-> [main |-> <<SCall("safeFunction"),
                         SPrintln("Program continues normally")>>,
              safeFunction |-> <<SDeferFunc(BodyRecover("Recovered from panic:")),
                                 SPrintln("Before panic"),
                                 SPanic("oh no!"),
                                 SPrintln("After panic")>>]]

\* The sequences of at most MaxDefers texts.
LabelSeqs == UNION {[1..n -> Labels] : n \in 0..MaxDefers}

\* The snippets that are run.
Programs ==
    {BasicProg, PanicProg, SafeProg, SafeFunctionProg}
        \cup {LifoProg(l) : l \in LabelSeqs}
        \cup {ArgEvalProg(v1, v2) : v1 \in Values, v2 \in Values}
        \cup {ClosureProg(v1, v2) : v1 \in Values, v2 \in Values}
        \cup {NamedReturnProg(v) : v \in Values}

\* A new frame of function f: its next statement, its variable x (the named
\* result of example), its deferred calls (last pushed last), and whether it
\* has stopped executing statements (after return, the end, or a panic).
NewFrame(f) == [fn |-> f, ip |-> 1, x |-> 0, defers |-> <<>>, exiting |-> FALSE]

\* The variables the defer snippets leave alone.
notDeferVars == <<vars, processVars, chanVars, wgVars, incVars, helloVars, mapVars, counterVars, sliceVars, layoutVars>>

InitDefer ==
    /\ prog \in Programs
    /\ stack = <<NewFrame(prog.entry)>>
    /\ panicv = NoPanic
    /\ output = <<>>
    /\ status = "running"
    /\ result = NoResult
    /\ RcIdle
    /\ ProcessIdle
    /\ ChanIdle
    /\ WgIdle
    /\ IncIdle
    /\ HelloIdle
    /\ MapIdle
    /\ CounterIdle
    /\ SliceIdle
    /\ LayoutIdle

\* The running frame and the body of its function.
Top == stack[Len(stack)]
Body == prog.fns[Top.fn]

\* The frame is at a statement.
AtStmt ==
    /\ status = "running"
    /\ ~Top.exiting
    /\ Top.ip <= Len(Body)
Cur == Body[Top.ip]

\* The stack with its top frame replaced by fr.
SetTop(fr) == [stack EXCEPT ![Len(stack)] = fr]

\* x := v or x = v.
ExecAssign ==
    /\ AtStmt /\ Cur.op = "assign"
    /\ stack' = SetTop([Top EXCEPT !.x = Cur.val, !.ip = @ + 1])
    /\ UNCHANGED <<prog, panicv, output, status, result>>
    /\ UNCHANGED notDeferVars

\* DeferredCall as a bug would have it: the argument x is read when the
\* deferred call runs.
DeferredCallLate(st, fr) ==
    IF st.op = "defer_println_x" THEN [kind |-> "func", body |-> BodyPrintlnX]
    ELSE [kind |-> "println", arg |-> st.text]

\* The deferred call a defer statement of a plain call pushes: the function
\* and its arguments, evaluated when the defer statement executes.
DeferredCall(st, fr) ==
    [kind |-> "println",
     arg |-> IF st.op = "defer_println_x" THEN Itoa(fr.x) ELSE st.text]

\* defer fmt.Println(...): the call is pushed with its argument's value.
ExecDeferCall ==
    /\ AtStmt /\ Cur.op \in {"defer_println", "defer_println_x"}
    /\ stack' = SetTop([Top EXCEPT !.defers = Append(@, DeferredCall(Cur, Top)),
                                   !.ip = @ + 1])
    /\ UNCHANGED <<prog, panicv, output, status, result>>
    /\ UNCHANGED notDeferVars

\* ExecDeferFunc as a bug would have it: the closure gets a copy of x made
\* when the defer statement executes.
ExecDeferFuncSnapshot ==
    /\ AtStmt /\ Cur.op = "defer_func"
    /\ stack' = SetTop([Top EXCEPT
           !.defers = Append(@, IF Cur.body.kind = "println_x"
                                THEN [kind |-> "println", arg |-> Itoa(Top.x)]
                                ELSE [kind |-> "func", body |-> Cur.body]),
           !.ip = @ + 1])
    /\ UNCHANGED <<prog, panicv, output, status, result>>
    /\ UNCHANGED notDeferVars

\* defer func() { ... }(): the closure is pushed; its body runs later.
ExecDeferFunc ==
    /\ AtStmt /\ Cur.op = "defer_func"
    /\ stack' = SetTop([Top EXCEPT !.defers = Append(@, [kind |-> "func", body |-> Cur.body]),
                                   !.ip = @ + 1])
    /\ UNCHANGED <<prog, panicv, output, status, result>>
    /\ UNCHANGED notDeferVars

\* fmt.Println("t").
ExecPrintln ==
    /\ AtStmt /\ Cur.op = "println"
    /\ output' = Append(output, Cur.text)
    /\ stack' = SetTop([Top EXCEPT !.ip = @ + 1])
    /\ UNCHANGED <<prog, panicv, status, result>>
    /\ UNCHANGED notDeferVars

\* ExecPanic as a bug would have it: the function goes on with the statement
\* after the panic.
ExecPanicGoesOn ==
    /\ AtStmt /\ Cur.op = "panic"
    /\ panicv' = Cur.val
    /\ stack' = SetTop([Top EXCEPT !.ip = @ + 1])
    /\ UNCHANGED <<prog, output, status, result>>
    /\ UNCHANGED notDeferVars

\* panic(v): the function stops executing its statements and panics.
ExecPanic ==
    /\ AtStmt /\ Cur.op = "panic"
    /\ panicv' = Cur.val
    /\ stack' = SetTop([Top EXCEPT !.exiting = TRUE])
    /\ UNCHANGED <<prog, output, status, result>>
    /\ UNCHANGED notDeferVars

\* ExecReturn as a bug would have it: the value of the return statement is
\* what the caller gets, the deferred calls having no say.
ExecReturnFinal ==
    /\ AtStmt /\ Cur.op = "return"
    /\ stack' = SetTop([Top EXCEPT !.x = Cur.val, !.exiting = TRUE, !.defers = <<>>])
    /\ UNCHANGED <<prog, panicv, output, status, result>>
    /\ UNCHANGED notDeferVars

\* return v in a function with the named result x: x is assigned, then the
\* function exits.
ExecReturn ==
    /\ AtStmt /\ Cur.op = "return"
    /\ stack' = SetTop([Top EXCEPT !.x = Cur.val, !.exiting = TRUE])
    /\ UNCHANGED <<prog, panicv, output, status, result>>
    /\ UNCHANGED notDeferVars

\* f(): a frame of f is pushed; the caller goes on after the call.
ExecCall ==
    /\ AtStmt /\ Cur.op = "call"
    /\ stack' = Append(SetTop([Top EXCEPT !.ip = @ + 1]), NewFrame(Cur.fn))
    /\ UNCHANGED <<prog, panicv, output, status, result>>
    /\ UNCHANGED notDeferVars

\* The end of the function body.
ExecEnd ==
    /\ status = "running"
    /\ ~Top.exiting
    /\ Top.ip > Len(Body)
    /\ stack' = SetTop([Top EXCEPT !.exiting = TRUE])
    /\ UNCHANGED <<prog, panicv, output, status, result>>
    /\ UNCHANGED notDeferVars

\* NextDeferred as a bug would have it: the first one pushed.
NextDeferredFifo(fr) == fr.defers[1]

\* The deferred call that runs next: the last one pushed.
NextDeferred(fr) == fr.defers[Len(fr.defers)]

\* The function is exiting (or panicking) and has deferred calls: the last
\* pushed runs. A closure reads and writes x as it is now; recover() stops
\* the panic in progress and yields its value.
RunDeferred ==
    /\ status = "running"
    /\ Top.exiting
    /\ Top.defers # <<>>
    /\ LET d == NextDeferred(Top)
           rest == SubSeq(Top.defers, 1, Len(Top.defers) - 1)
           kind == IF d.kind = "func" THEN d.body.kind ELSE d.kind IN
         /\ stack' = SetTop([Top EXCEPT !.defers = rest,
                                        !.x = IF kind = "incr_x" THEN @ + 1 ELSE @])
         /\ output' =
              CASE kind = "println" -> Append(output, d.arg)
                [] kind = "println_x" -> Append(output, Itoa(Top.x))
                [] kind = "recover" /\ panicv # NoPanic ->
                       Append(output, d.body.prefix \o " " \o panicv)
                [] OTHER -> output
         /\ panicv' = IF kind = "recover" THEN NoPanic ELSE panicv
    /\ UNCHANGED <<prog, status, result>>
    /\ UNCHANGED notDeferVars

\* No deferred call is left and nothing panics: the function returns to its
\* caller, which receives the result x; when main returns the program exits.
FrameReturn ==
    /\ status = "running"
    /\ Top.exiting
    /\ Top.defers = <<>>
    /\ panicv = NoPanic
    /\ stack' = SubSeq(stack, 1, Len(stack) - 1)
    /\ IF Len(stack) = 1
       THEN /\ status' = "exited"
            /\ result' = Top.x
       ELSE UNCHANGED <<status, result>>
    /\ UNCHANGED <<prog, panicv, output>>
    /\ UNCHANGED notDeferVars

\* No deferred call is left and the panic goes on: it passes to the caller,
\* which stops executing too; past the last frame the program crashes.
Unwind ==
    /\ status = "running"
    /\ Top.exiting
    /\ Top.defers = <<>>
    /\ panicv # NoPanic
    /\ stack' = IF Len(stack) = 1 THEN <<>>
                ELSE [SubSeq(stack, 1, Len(stack) - 1)
                         EXCEPT ![Len(stack) - 1].exiting = TRUE]
    /\ status' = IF Len(stack) = 1 THEN "crashed" ELSE status
    /\ UNCHANGED <<prog, panicv, output, result>>
    /\ UNCHANGED notDeferVars

NextDefer ==
    \/ ExecAssign
    \/ ExecDeferCall
    \/ ExecDeferFunc
    \/ ExecPrintln
    \/ ExecPanic
    \/ ExecReturn
    \/ ExecCall
    \/ ExecEnd
    \/ RunDeferred
    \/ FrameReturn
    \/ Unwind

allVars == <<vars, snippetVars>>

\* The runs of the defer, panic and recover snippets.
DeferSpec == InitDefer /\ [][NextDefer]_allVars

\* The sequence sq reversed.
Reverse(sq) == [i \in 1..Len(sq) |-> sq[Len(sq) + 1 - i]]

\* C13: the deferred calls of a function all run when it returns, none
\* before, and in last-in first-out order: the lines printed are the texts
\* of the defer statements in reverse.
C13_DeferredRunLifo ==
    prog.name = "lifo" =>
        /\ (status = "running" /\ ~Top.exiting) => output = <<>>
        /\ status = "exited" => output = Reverse(prog.labels)
        /\ status # "crashed"

\* C13's case: the main of the notes has exited.
C13_Witness ==
    /\ prog.name = "lifo" /\ status = "exited"
    /\ prog.labels = <<"First", "Second", "Third">>
    /\ output = <<"Third", "Second", "First">>

\* C14: the argument of a deferred call is evaluated when the defer
\* statement executes: x := v1; defer fmt.Println(x); x = v2 prints v1.
C14_ArgumentsEvaluatedAtDefer ==
    (prog.name = "argeval" /\ status = "exited") => output = <<Itoa(prog.v1)>>

\* C14's case: the snippet of the notes (10, then 20) has printed 10.
C14_Witness ==
    /\ prog.name = "argeval" /\ status = "exited"
    /\ prog.v1 = 10 /\ prog.v2 = 20 /\ output = <<"10">>

\* C15: a deferred anonymous function reads x when it runs:
\* x := v1; defer func() { fmt.Println(x) }(); x = v2 prints v2.
C15_ClosureReadsAtExecution ==
    (prog.name = "closure" /\ status = "exited") => output = <<Itoa(prog.v2)>>

\* C15's case: the snippet of the notes (10, then 20) has printed 20.
C15_Witness ==
    /\ prog.name = "closure" /\ status = "exited"
    /\ prog.v1 = 10 /\ prog.v2 = 20 /\ output = <<"20">>

\* C16: with the named result x, the deferred x++ runs after return v has
\* assigned x and before the caller receives it: the caller gets v + 1, and
\* nothing before the deferred function has run.
C16_DeferredChangesNamedResult ==
    prog.name = "named" =>
        /\ status = "exited" => result = prog.v1 + 1
        /\ status = "running" => result = NoResult
        /\ (status = "running" /\ Top.exiting) =>
              Top.x = IF Top.defers = <<>> THEN prog.v1 + 1 ELSE prog.v1

\* C16's case: example() with return 5 has returned 6.
C16_Witness ==
    /\ prog.name = "named" /\ status = "exited"
    /\ prog.v1 = 5 /\ result = 6

\* The lines of pre that are the first lines of sq.
IsPrefix(pre, sq) ==
    /\ Len(pre) <= Len(sq)
    /\ \A i \in 1..Len(pre) : pre[i] = sq[i]

\* What the program of safeFunction prints.
SafeFunctionOutput ==
    <<"Before panic", "Recovered from panic: oh no!", "Program continues normally">>

\* C17: the panic of safeFunction is recovered: "After panic" is never
\* printed, the deferred function prints the panic value, the program does
\* not crash, and main goes on to print "Program continues normally"; safe()
\* recovers its panic the same way.
C17_PanicRecovered ==
    /\ prog.name = "safeFunction" =>
        /\ status # "crashed"
        /\ IsPrefix(output, SafeFunctionOutput)
        /\ status = "exited" => output = SafeFunctionOutput /\ panicv = NoPanic
    /\ prog.name = "safe" =>
        /\ status # "crashed"
        /\ status = "exited" => output = <<"Recovered: boom">> /\ panicv = NoPanic

\* C17's case: the program of safeFunction has exited after the recovery.
C17_Witness ==
    /\ prog.name = "safeFunction" /\ status = "exited"
    /\ Len(output) = 3 /\ output[2] = "Recovered from panic: oh no!"

----------------------------------------------------------------------------
\* The early-return pattern: process()

\* The number of calls of process(), and of values load() can return.
NumProcessCalls == 2
MaxData == 2

ProcessCalls == 1..NumProcessCalls

\* The data load() can return (0 is the zero value it returns with an error).
Data == 1..MaxData

\* errors.New(text).
NewError(text) == [type |-> "errorString", msg |-> text]

\* The errors load, validate and save can return.
ProcessErrs == {NewError("not found"), NewError("invalid")}

\* What load() can return: data and no error, or no data and an error.
LoadResults ==
    {[data |-> d, err |-> NilErr] : d \in Data}
        \cup {[data |-> 0, err |-> e] : e \in ProcessErrs}

\* What validate(data) and save(data) can return.
ErrResults == {NilErr} \cup ProcessErrs

\* The variables process() leaves alone.
notProcessVars == <<vars, deferVars, chanVars, wgVars, incVars, helloVars, mapVars, counterVars, sliceVars, layoutVars>>

InitProcess ==
    /\ ppc = [p \in ProcessCalls |-> "load"]
    /\ pdata = [p \in ProcessCalls |-> 0]
    /\ perr = [p \in ProcessCalls |-> NilErr]
    /\ pret = [p \in ProcessCalls |-> NilErr]
    /\ pcalls = [p \in ProcessCalls |-> <<>>]
    /\ RcIdle
    /\ DeferIdle
    /\ ChanIdle
    /\ WgIdle
    /\ IncIdle
    /\ HelloIdle
    /\ MapIdle
    /\ CounterIdle
    /\ SliceIdle
    /\ LayoutIdle

\* process line 292: data, err := load().
procLoad(p) ==
    /\ ppc[p] = "load"
    /\ \E r \in LoadResults :
         /\ pdata' = [pdata EXCEPT ![p] = r.data]
         /\ perr' = [perr EXCEPT ![p] = r.err]
         /\ pcalls' = [pcalls EXCEPT ![p] =
                          Append(@, [fn |-> "load", arg |-> 0, err |-> r.err])]
    /\ ppc' = [ppc EXCEPT ![p] = "check_load"]
    /\ UNCHANGED pret
    /\ UNCHANGED notProcessVars

\* process lines 293-295: if err != nil { return err }.
procCheckLoad(p) ==
    /\ ppc[p] = "check_load"
    /\ IF perr[p] # NilErr
       THEN /\ pret' = [pret EXCEPT ![p] = perr[p]]
            /\ ppc' = [ppc EXCEPT ![p] = "done"]
       ELSE /\ ppc' = [ppc EXCEPT ![p] = "validate"]
            /\ UNCHANGED pret
    /\ UNCHANGED <<pdata, perr, pcalls>>
    /\ UNCHANGED notProcessVars

\* process line 297: err := validate(data).
procValidate(p) ==
    /\ ppc[p] = "validate"
    /\ \E e \in ErrResults :
         /\ perr' = [perr EXCEPT ![p] = e]
         /\ pcalls' = [pcalls EXCEPT ![p] =
                          Append(@, [fn |-> "validate", arg |-> pdata[p], err |-> e])]
    /\ ppc' = [ppc EXCEPT ![p] = "check_validate"]
    /\ UNCHANGED <<pdata, pret>>
    /\ UNCHANGED notProcessVars

\* procCheckValidate as a bug would have it: the error of validate is
\* dropped and process goes on to save.
procCheckValidateGoesOn(p) ==
    /\ ppc[p] = "check_validate"
    /\ ppc' = [ppc EXCEPT ![p] = "save"]
    /\ UNCHANGED <<pdata, perr, pret, pcalls>>
    /\ UNCHANGED notProcessVars

\* process lines 297-299: if ...; err != nil { return err }.
procCheckValidate(p) ==
    /\ ppc[p] = "check_validate"
    /\ IF perr[p] # NilErr
       THEN /\ pret' = [pret EXCEPT ![p] = perr[p]]
            /\ ppc' = [ppc EXCEPT ![p] = "done"]
       ELSE /\ ppc' = [ppc EXCEPT ![p] = "save"]
            /\ UNCHANGED pret
    /\ UNCHANGED <<pdata, perr, pcalls>>
    /\ UNCHANGED notProcessVars

\* process line 301: return save(data).
procSave(p) ==
    /\ ppc[p] = "save"
    /\ \E e \in ErrResults :
         /\ pret' = [pret EXCEPT ![p] = e]
         /\ pcalls' = [pcalls EXCEPT ![p] =
                          Append(@, [fn |-> "save", arg |-> pdata[p], err |-> e])]
    /\ ppc' = [ppc EXCEPT ![p] = "done"]
    /\ UNCHANGED <<pdata, perr>>
    /\ UNCHANGED notProcessVars

NextProcess ==
    \E p \in ProcessCalls :
        \/ procLoad(p)
        \/ procCheckLoad(p)
        \/ procValidate(p)
        \/ procCheckValidate(p)
        \/ procSave(p)

\* The calls of process().
ProcessSpec == InitProcess /\ [][NextProcess]_allVars

\* The steps of process, in order.
ProcessSteps == <<"load", "validate", "save">>

\* C18: in process() validate is called only after load succeeded and save
\* only after load and validate succeeded (each with the data load returned);
\* no step runs after a step returned an error, and process returns the first
\* error unchanged (nil when no step failed).
C18_EarlyReturn ==
    \A p \in ProcessCalls :
        LET cs == pcalls[p] IN
        /\ Len(cs) <= 3
        /\ \A i \in 1..Len(cs) :
              /\ cs[i].fn = ProcessSteps[i]
              /\ i > 1 => cs[i - 1].err = NilErr /\ cs[i].arg = pdata[p]
              /\ i > 1 => pdata[p] \in Data
        /\ ppc[p] = "done" =>
              /\ cs # <<>>
              /\ pret[p] = cs[Len(cs)].err
              /\ cs[Len(cs)].err = NilErr => Len(cs) = 3
        /\ ppc[p] # "done" => pret[p] = NilErr

\* C18's case: one call has returned the error of validate without calling
\* save, and another has run all three steps.
C18_Witness ==
    \E p, q \in ProcessCalls :
        /\ ppc[p] = "done" /\ Len(pcalls[p]) = 2 /\ pret[p] = NewError("invalid")
        /\ ppc[q] = "done" /\ Len(pcalls[q]) = 3

----------------------------------------------------------------------------
\* Channels: ch := make(chan int) and ch := make(chan int, 3)

\* The capacity of the buffered channel of the notes.
Capacity == 3
\* The number of goroutines, and of channel operations of each.
NumGoroutines == 2
MaxOps == 4

Goroutines == 1..NumGoroutines

\* The variables the channel operations leave alone.
notChanVars == <<vars, deferVars, processVars, wgVars, incVars, helloVars, mapVars, counterVars, sliceVars, layoutVars>>

\* A goroutine has no received value at hand.
NoRecv == [got |-> FALSE, v |-> 0, ok |-> FALSE, closed |-> FALSE]

\* v, ok of a receive that got the value val, with a note of whether the
\* channel was closed by then.
Recv(val) == [got |-> TRUE, v |-> val, ok |-> TRUE, closed |-> chclosed]

\* v, ok of a receive from a closed and empty channel: the zero value, false.
RecvClosed == [got |-> TRUE, v |-> 0, ok |-> FALSE, closed |-> TRUE]

\* ch := make(chan int) or make(chan int, n), n up to 3.
InitChan ==
    /\ chcap \in 0..Capacity
    /\ chbuf = <<>>
    /\ sendq = <<>>
    /\ recvq = <<>>
    /\ chclosed = FALSE
    /\ gstate = [g \in Goroutines |-> "ready"]
    /\ gops = [g \in Goroutines |-> 0]
    /\ glast = [g \in Goroutines |-> NoRecv]
    /\ chout = <<>>
    /\ nsent = 0
    /\ nrecv = 0
    /\ RcIdle
    /\ DeferIdle
    /\ ProcessIdle
    /\ WgIdle
    /\ IncIdle
    /\ HelloIdle
    /\ MapIdle
    /\ CounterIdle
    /\ SliceIdle
    /\ LayoutIdle

\* A goroutine has panicked: the program has crashed.
Crashed == \E g \in Goroutines : gstate[g] = "panicked"

\* Goroutine g can start a channel operation.
CanStart(g) == ~Crashed /\ gstate[g] = "ready" /\ gops[g] < MaxOps

\* The value goroutine g sends next.
SendValue(g) == gops[g] + 1

\* CanBuffer as a bug would have it: one more value than the capacity fits.
CanBufferOneMore == Len(chbuf) <= chcap

\* CanBuffer as a bug would have it: the last slot is never used.
CanBufferOneLess == Len(chbuf) + 1 < chcap

\* The buffer has a free slot.
CanBuffer == Len(chbuf) < chcap

\* ch <- v with a receiver waiting: the value goes to the first waiting
\* receiver, whose receive completes with the send.
chSendToReceiver(g) ==
    /\ CanStart(g)
    /\ ~chclosed
    /\ recvq # <<>>
    /\ recvq' = Tail(recvq)
    /\ gstate' = [gstate EXCEPT ![Head(recvq)] = "ready"]
    /\ glast' = [glast EXCEPT ![Head(recvq)] = Recv(SendValue(g))]
    /\ gops' = [gops EXCEPT ![g] = @ + 1]
    /\ nsent' = nsent + 1
    /\ nrecv' = nrecv + 1
    /\ UNCHANGED <<chcap, chbuf, sendq, chclosed, chout>>
    /\ UNCHANGED notChanVars

\* ch <- v with no receiver waiting and a free slot: the value is buffered.
chSendBuffered(g) ==
    /\ CanStart(g)
    /\ ~chclosed
    /\ recvq = <<>>
    /\ CanBuffer
    /\ chbuf' = Append(chbuf, SendValue(g))
    /\ gops' = [gops EXCEPT ![g] = @ + 1]
    /\ nsent' = nsent + 1
    /\ UNCHANGED <<chcap, sendq, recvq, chclosed, gstate, glast, chout, nrecv>>
    /\ UNCHANGED notChanVars

\* ch <- v with no receiver waiting and no free slot: the sender blocks.
chSendBlocks(g) ==
    /\ CanStart(g)
    /\ ~chclosed
    /\ recvq = <<>>
    /\ ~CanBuffer
    /\ sendq' = Append(sendq, [g |-> g, val |-> SendValue(g)])
    /\ gstate' = [gstate EXCEPT ![g] = "send_blocked"]
    /\ gops' = [gops EXCEPT ![g] = @ + 1]
    /\ UNCHANGED <<chcap, chbuf, recvq, chclosed, glast, chout, nsent, nrecv>>
    /\ UNCHANGED notChanVars

\* <-ch with a sender waiting: the receiver takes the oldest value (the
\* sender's own when nothing is buffered), the sender's value enters the
\* buffer behind the others, and the sender's send completes.
chRecvFromSender(g) ==
    /\ CanStart(g)
    /\ sendq # <<>>
    /\ sendq' = Tail(sendq)
    /\ chbuf' = IF chbuf = <<>> THEN chbuf
                ELSE Append(Tail(chbuf), Head(sendq).val)
    /\ gstate' = [gstate EXCEPT ![Head(sendq).g] = "ready"]
    /\ glast' = [glast EXCEPT ![g] =
                   Recv(IF chbuf = <<>> THEN Head(sendq).val ELSE Head(chbuf))]
    /\ gops' = [gops EXCEPT ![g] = @ + 1]
    /\ nsent' = nsent + 1
    /\ nrecv' = nrecv + 1
    /\ UNCHANGED <<chcap, recvq, chclosed, chout>>
    /\ UNCHANGED notChanVars

\* <-ch with no sender waiting and a buffered value: the oldest is taken,
\* whether the channel is closed or not.
chRecvBuffered(g) ==
    /\ CanStart(g)
    /\ sendq = <<>>
    /\ chbuf # <<>>
    /\ chbuf' = Tail(chbuf)
    /\ glast' = [glast EXCEPT ![g] = Recv(Head(chbuf))]
    /\ gops' = [gops EXCEPT ![g] = @ + 1]
    /\ nrecv' = nrecv + 1
    /\ UNCHANGED <<chcap, sendq, recvq, chclosed, gstate, chout, nsent>>
    /\ UNCHANGED notChanVars

\* <-ch with no sender waiting and nothing buffered: the receiver blocks.
chRecvBlocks(g) ==
    /\ CanStart(g)
    /\ ~chclosed
    /\ sendq = <<>>
    /\ chbuf = <<>>
    /\ recvq' = Append(recvq, g)
    /\ gstate' = [gstate EXCEPT ![g] = "recv_blocked"]
    /\ gops' = [gops EXCEPT ![g] = @ + 1]
    /\ UNCHANGED <<chcap, chbuf, sendq, chclosed, glast, chout, nsent, nrecv>>
    /\ UNCHANGED notChanVars

\* ch <- v on a closed channel: panic.
chSendClosed(g) ==
    /\ CanStart(g)
    /\ chclosed
    /\ gstate' = [gstate EXCEPT ![g] = "panicked"]
    /\ gops' = [gops EXCEPT ![g] = @ + 1]
    /\ UNCHANGED <<chcap, chbuf, sendq, recvq, chclosed, glast, chout, nsent,
                   nrecv>>
    /\ UNCHANGED notChanVars

\* v, ok := <-ch on a closed channel with nothing buffered as a bug would
\* have it: ok is true.
chRecvClosedOk(g) ==
    /\ CanStart(g)
    /\ chclosed
    /\ chbuf = <<>>
    /\ glast' = [glast EXCEPT ![g] = Recv(0)]
    /\ gops' = [gops EXCEPT ![g] = @ + 1]
    /\ UNCHANGED <<chcap, chbuf, sendq, recvq, chclosed, gstate, chout, nsent,
                   nrecv>>
    /\ UNCHANGED notChanVars

\* v, ok := <-ch on a closed channel with nothing buffered: the receive does
\* not block, v is the zero value and ok is false.
chRecvClosed(g) ==
    /\ CanStart(g)
    /\ chclosed
    /\ chbuf = <<>>
    /\ glast' = [glast EXCEPT ![g] = RecvClosed]
    /\ gops' = [gops EXCEPT ![g] = @ + 1]
    /\ UNCHANGED <<chcap, chbuf, sendq, recvq, chclosed, gstate, chout, nsent,
                   nrecv>>
    /\ UNCHANGED notChanVars

\* ch <- v by goroutine g.
chSend(g) ==
    chSendToReceiver(g) \/ chSendBuffered(g) \/ chSendBlocks(g) \/ chSendClosed(g)

\* <-ch by goroutine g.
chRecv(g) ==
    chRecvFromSender(g) \/ chRecvBuffered(g) \/ chRecvBlocks(g) \/ chRecvClosed(g)

NextChan ==
    \E g \in Goroutines :
        \/ chSendToReceiver(g)
        \/ chSendBuffered(g)
        \/ chSendBlocks(g)
        \/ chRecvFromSender(g)
        \/ chRecvBuffered(g)
        \/ chRecvBlocks(g)

\* The goroutines sending to and receiving from one channel.
ChanSpec == InitChan /\ [][NextChan]_allVars

\* C19: on a buffered channel of capacity N (1 to 3) a send blocks exactly
\* when the buffer holds N values and a receive blocks exactly when the
\* buffer is empty; a blocked sender stays blocked only while the buffer is
\* full, a blocked receiver only while it is empty; the buffer never holds
\* fewer than 0 or more than N values.
C19_BufferedBlocking ==
    /\ [](chcap >= 1 =>
            /\ Len(chbuf) >= 0 /\ Len(chbuf) <= chcap
            /\ sendq # <<>> => Len(chbuf) = chcap
            /\ recvq # <<>> => Len(chbuf) = 0)
    /\ [][\A g \in Goroutines :
            chcap >= 1 =>
                /\ chSend(g) => (gstate'[g] = "send_blocked" <=> Len(chbuf) = chcap)
                /\ chRecv(g) => (gstate'[g] = "recv_blocked" <=> Len(chbuf) = 0)]_allVars

\* C19's case: the channel of the notes holds its 3 values and the sender of
\* the fourth is blocked.
C19_Witness ==
    /\ chcap = 3 /\ chbuf = <<1, 2, 3>>
    /\ \E g \in Goroutines : gstate[g] = "send_blocked" /\ Head(sendq).val = 4

\* C20: on an unbuffered channel a send completes only together with a
\* receive: nothing is ever buffered, a send blocks exactly when no receiver
\* is waiting and a receive exactly when no sender is waiting, and the
\* completed sends always equal the completed receives.
C20_UnbufferedRendezvous ==
    /\ [](chcap = 0 =>
            /\ nsent = nrecv
            /\ chbuf = <<>>
            /\ sendq = <<>> \/ recvq = <<>>)
    /\ [][\A g \in Goroutines :
            chcap = 0 =>
                /\ chSend(g) => (gstate'[g] = "send_blocked" <=> recvq = <<>>)
                /\ chRecv(g) => (gstate'[g] = "recv_blocked" <=> sendq = <<>>)
                /\ nsent' - nsent = nrecv' - nrecv]_allVars

\* C20's case: on the unbuffered channel a send and a receive have completed
\* together and a sender is blocked, waiting for a receiver.
C20_Witness ==
    /\ chcap = 0 /\ nsent >= 1 /\ nsent = nrecv
    /\ \E g \in Goroutines : gstate[g] = "send_blocked"

----------------------------------------------------------------------------
\* Channel Closing: close(ch), v, ok := <-ch, for value := range ch

\* close(ch) on a closed channel: panic.
chCloseClosed(g) ==
    /\ CanStart(g)
    /\ chclosed
    /\ gstate' = [gstate EXCEPT ![g] = "panicked"]
    /\ gops' = [gops EXCEPT ![g] = @ + 1]
    /\ UNCHANGED <<chcap, chbuf, sendq, recvq, chclosed, glast, chout, nsent,
                   nrecv>>
    /\ UNCHANGED notChanVars

\* The goroutines blocked in a send, and those blocked in a receive.
BlockedSenders == {sendq[i].g : i \in 1..Len(sendq)}
BlockedReceivers == {recvq[i] : i \in 1..Len(recvq)}

\* close(ch): the channel is closed; every blocked receiver gets the zero
\* value and ok = false, every blocked sender panics; what is buffered stays.
chClose(g) ==
    /\ CanStart(g)
    /\ ~chclosed
    /\ chclosed' = TRUE
    /\ sendq' = <<>>
    /\ recvq' = <<>>
    /\ gstate' = [h \in Goroutines |->
                    IF h \in BlockedSenders THEN "panicked"
                    ELSE IF h \in BlockedReceivers THEN "ready"
                    ELSE gstate[h]]
    /\ glast' = [h \in Goroutines |->
                   IF h \in BlockedReceivers THEN RecvClosed ELSE glast[h]]
    /\ gops' = [gops EXCEPT ![g] = @ + 1]
    /\ UNCHANGED <<chcap, chbuf, chout, nsent, nrecv>>
    /\ UNCHANGED notChanVars

\* The goroutine that sends and closes, and those that loop over the channel.
Producer == 1
Consumers == Goroutines \ {Producer}

\* for value := range ch: the loop is about to receive.
AtRange(c) == ~Crashed /\ gstate[c] = "ready" /\ ~glast[c].got

\* for value := range ch: the next value is received, as by v, ok := <-ch.
rangeRecv(c) == AtRange(c) /\ chRecv(c)

\* fmt.Println(value): the body of the loop, run for a received value.
rangeBody(c) ==
    /\ ~Crashed
    /\ gstate[c] = "ready"
    /\ glast[c].got /\ glast[c].ok
    /\ chout' = Append(chout, glast[c].v)
    /\ glast' = [glast EXCEPT ![c] = NoRecv]
    /\ UNCHANGED <<chcap, chbuf, sendq, recvq, chclosed, gstate, gops, nsent,
                   nrecv>>
    /\ UNCHANGED notChanVars

\* for value := range ch ends: the receive reported ok = false.
rangeExit(c) ==
    /\ ~Crashed
    /\ gstate[c] = "ready"
    /\ glast[c].got /\ ~glast[c].ok
    /\ gstate' = [gstate EXCEPT ![c] = "exited"]
    /\ UNCHANGED <<chcap, chbuf, sendq, recvq, chclosed, gops, glast, chout,
                   nsent, nrecv>>
    /\ UNCHANGED notChanVars

\* A step of the loop of goroutine c.
rangeStep(c) == rangeRecv(c) \/ rangeBody(c) \/ rangeExit(c)

NextRange ==
    \/ chSendToReceiver(Producer)
    \/ chSendBuffered(Producer)
    \/ chSendBlocks(Producer)
    \/ chSendClosed(Producer)
    \/ chClose(Producer)
    \/ chCloseClosed(Producer)
    \/ \E c \in Consumers : rangeRecv(c)
    \/ \E c \in Consumers : rangeBody(c)
    \/ \E c \in Consumers : rangeExit(c)

\* One goroutine sends to the channel and closes it when it likes, the
\* others loop over the channel; the loops are scheduled fairly.
RangeSpec ==
    /\ InitChan
    /\ [][NextRange]_allVars
    /\ \A c \in Consumers : WF_allVars(rangeStep(c))

\* "ok = false -> closed", and the loop over the channel: a receive reports
\* ok = false only on a closed channel; a loop has ended only when the
\* channel is closed and empty; once the channel is closed every loop ends
\* (unless the program crashes first).
RangeUntilClosed ==
    /\ [](\A g \in Goroutines :
            /\ glast[g].got /\ ~glast[g].ok => chclosed
            /\ gstate[g] = "exited" => chclosed /\ chbuf = <<>>)
    /\ \A c \in Consumers : chclosed ~> (gstate[c] = "exited" \/ Crashed)

\* C25 as stated: every receive after close(ch) reports ok = false; a loop
\* over the channel continues until the channel is closed and then ends.
C25_ReceiveAfterCloseNotOk ==
    /\ [][\A g \in Goroutines :
            chclosed /\ chRecv(g) => glast'[g].got /\ ~glast'[g].ok]_allVars
    /\ RangeUntilClosed

\* C25 amended: after close(ch) a receive reports ok = false exactly when
\* nothing is buffered; the values buffered before the close are still
\* received, with ok = true. A receiver blocked at the close gets ok = false.
\* A loop over the channel continues until the channel is closed and empty
\* and then ends.
C25_ReceiveAfterCloseAndDrainNotOk ==
    /\ [][\A g \in Goroutines :
            /\ chclosed /\ chRecv(g) =>
                 /\ glast'[g].got
                 /\ ~glast'[g].ok <=> chbuf = <<>>
            /\ ~chclosed /\ chclosed' /\ gstate[g] = "recv_blocked" =>
                 glast'[g] = RecvClosed]_allVars
    /\ RangeUntilClosed

\* C25's case: after close(ch) a loop over the channel has received a value
\* that was buffered before the close, with ok = true.
C25_Witness ==
    \E c \in Consumers :
        /\ chclosed
        /\ glast[c].got /\ glast[c].ok /\ glast[c].closed

----------------------------------------------------------------------------
\* WaitGroup: wg.Add(1); go func(){ defer wg.Done() }(); wg.Wait()

\* The most goroutines main starts.
NumWorkers == 3

Workers == 1..NumWorkers

\* The variables the WaitGroup pattern leaves alone.
notWgVars == <<vars, deferVars, processVars, chanVars, incVars, helloVars, mapVars, counterVars, sliceVars, layoutVars>>

\* var wg sync.WaitGroup: the counter is 0 and no goroutine has started.
InitWg ==
    /\ wgn \in 1..NumWorkers
    /\ wgcount = 0
    /\ wgmain = "add"
    /\ wgstarted = 0
    /\ wk = [w \in Workers |-> "none"]
    /\ RcIdle
    /\ DeferIdle
    /\ ProcessIdle
    /\ ChanIdle
    /\ IncIdle
    /\ HelloIdle
    /\ MapIdle
    /\ CounterIdle
    /\ SliceIdle
    /\ LayoutIdle

\* wg.Add(1) as a bug would have it: the counter is not raised.
wgAddMissing ==
    /\ wgmain = "add"
    /\ wgmain' = "go"
    /\ UNCHANGED <<wgn, wgcount, wgstarted, wk>>
    /\ UNCHANGED notWgVars

\* wg.Add(1)
wgAdd ==
    /\ wgmain = "add"
    /\ wgcount' = wgcount + 1
    /\ wgmain' = "go"
    /\ UNCHANGED <<wgn, wgstarted, wk>>
    /\ UNCHANGED notWgVars

\* go func(){ ... }(): the goroutine is created and main goes on, to the
\* next wg.Add(1) or to wg.Wait().
wgGo ==
    /\ wgmain = "go"
    /\ wgstarted' = wgstarted + 1
    /\ wk' = [wk EXCEPT ![wgstarted + 1] = "running"]
    /\ wgmain' = IF wgstarted + 1 < wgn THEN "add" ELSE "wait"
    /\ UNCHANGED <<wgn, wgcount>>
    /\ UNCHANGED notWgVars

\* wg.Wait() with the counter at 0: it returns at once.
wgWaitReturns ==
    /\ wgmain = "wait"
    /\ wgcount = 0
    /\ wgmain' = "returned"
    /\ UNCHANGED <<wgn, wgcount, wgstarted, wk>>
    /\ UNCHANGED notWgVars

\* wg.Wait() with the counter above 0: main blocks.
wgWaitBlocks ==
    /\ wgmain = "wait"
    /\ wgcount > 0
    /\ wgmain' = "waiting"
    /\ UNCHANGED <<wgn, wgcount, wgstarted, wk>>
    /\ UNCHANGED notWgVars

\* The goroutine's function reaches its end; its deferred call is next.
wkBody(w) ==
    /\ wk[w] = "running"
    /\ wk' = [wk EXCEPT ![w] = "returning"]
    /\ UNCHANGED <<wgn, wgcount, wgmain, wgstarted>>
    /\ UNCHANGED notWgVars

\* The deferred wg.Done(): the counter goes down by one, and at 0 a blocked
\* wg.Wait() returns. The goroutine is over.
wkDone(w) ==
    /\ wk[w] = "returning"
    /\ wgcount' = wgcount - 1
    /\ wgmain' = IF wgmain = "waiting" /\ wgcount - 1 = 0
                 THEN "returned" ELSE wgmain
    /\ wk' = [wk EXCEPT ![w] = "exited"]
    /\ UNCHANGED <<wgn, wgstarted>>
    /\ UNCHANGED notWgVars

\* A step of main.
wgMain == wgAdd \/ wgGo \/ wgWaitReturns \/ wgWaitBlocks

\* A step of goroutine w.
wkStep(w) == wkBody(w) \/ wkDone(w)

NextWg ==
    \/ wgAdd
    \/ wgGo
    \/ wgWaitReturns
    \/ wgWaitBlocks
    \/ \E w \in Workers : wkBody(w)
    \/ \E w \in Workers : wkDone(w)

\* main and its goroutines, scheduled in any order.
WgSpec == InitWg /\ [][NextWg]_allVars

\* main and its goroutines under a fair scheduler: whichever can step
\* eventually does.
WgFairSpec ==
    WgSpec /\ WF_allVars(wgMain) /\ \A w \in Workers : WF_allVars(wkStep(w))

\* C21: wg.Wait() has returned only when every goroutine main started has
\* finished, and under fair scheduling wg.Wait() eventually returns.
C21_WaitReturnsAfterAllDone ==
    /\ [](wgmain = "returned" =>
            /\ wgstarted = wgn
            /\ \A w \in 1..wgstarted : wk[w] = "exited")
    /\ (wgmain = "add" /\ wgstarted = 0) ~> (wgmain = "returned")

\* C21's case: main started all its goroutines, every one of them has run
\* its deferred wg.Done(), and wg.Wait() has returned.
C21_Witness ==
    /\ wgmain = "returned" /\ wgn = NumWorkers
    /\ \A w \in Workers : wk[w] = "exited"

----------------------------------------------------------------------------
\* Race conditions and Mutex: x++ with and without mu.Lock() / mu.Unlock()

\* The goroutines that increment x, and the x++ each of them executes.
NumIncrementers == 2
IncsEach == 2

Incrementers == 1..NumIncrementers

\* The variables the incrementing goroutines leave alone.
notIncVars == <<vars, deferVars, processVars, chanVars, wgVars, helloVars, mapVars, counterVars, sliceVars, layoutVars>>

\* Where a goroutine is before an x++.
IncEntry == IF synced THEN "lock" ELSE "load"

\* var mu sync.Mutex; x is 0; the goroutines are about to increment it, all
\* with the mutex or all without.
InitInc ==
    /\ synced \in BOOLEAN
    /\ sharedX = 0
    /\ mu = 0
    /\ ipc = [g \in Incrementers |-> IncEntry]
    /\ itmp = [g \in Incrementers |-> 0]
    /\ idone = [g \in Incrementers |-> 0]
    /\ RcIdle
    /\ DeferIdle
    /\ ProcessIdle
    /\ ChanIdle
    /\ WgIdle
    /\ HelloIdle
    /\ MapIdle
    /\ CounterIdle
    /\ SliceIdle
    /\ LayoutIdle

\* mu.Lock() as a bug would have it: the lock is taken from its holder.
muLockNotExclusive(g) ==
    /\ ipc[g] = "lock"
    /\ mu' = g
    /\ ipc' = [ipc EXCEPT ![g] = "load"]
    /\ UNCHANGED <<synced, sharedX, itmp, idone>>
    /\ UNCHANGED notIncVars

\* mu.Lock(): blocks while another goroutine holds mu.
muLock(g) ==
    /\ ipc[g] = "lock"
    /\ mu = 0
    /\ mu' = g
    /\ ipc' = [ipc EXCEPT ![g] = "load"]
    /\ UNCHANGED <<synced, sharedX, itmp, idone>>
    /\ UNCHANGED notIncVars

\* x++, first half: x is read.
incLoad(g) ==
    /\ ipc[g] = "load"
    /\ itmp' = [itmp EXCEPT ![g] = sharedX]
    /\ ipc' = [ipc EXCEPT ![g] = "store"]
    /\ UNCHANGED <<synced, sharedX, mu, idone>>
    /\ UNCHANGED notIncVars

\* x++, second half: the value read plus one is written to x. Without the
\* mutex the goroutine goes on to its next x++, if it has one.
incStore(g) ==
    /\ ipc[g] = "store"
    /\ sharedX' = itmp[g] + 1
    /\ idone' = [idone EXCEPT ![g] = @ + 1]
    /\ ipc' = [ipc EXCEPT ![g] =
                 IF synced THEN "unlock"
                 ELSE IF idone[g] + 1 < IncsEach THEN "load" ELSE "done"]
    /\ UNCHANGED <<synced, mu, itmp>>
    /\ UNCHANGED notIncVars

\* mu.Unlock(); the goroutine goes on to its next x++, if it has one.
muUnlock(g) ==
    /\ ipc[g] = "unlock"
    /\ mu' = 0
    /\ ipc' = [ipc EXCEPT ![g] =
                 IF idone[g] < IncsEach THEN "lock" ELSE "done"]
    /\ UNCHANGED <<synced, sharedX, itmp, idone>>
    /\ UNCHANGED notIncVars

NextInc ==
    \E g \in Incrementers :
        \/ muLock(g)
        \/ incLoad(g)
        \/ incStore(g)
        \/ muUnlock(g)

\* The goroutines incrementing x, scheduled in any order.
IncSpec == InitInc /\ [][NextInc]_allVars

RECURSIVE SumTo(_, _)
\* The sum of f[1], ..., f[n].
SumTo(f, n) == IF n = 0 THEN 0 ELSE f[n] + SumTo(f, n - 1)

\* The x++ completed so far, by all goroutines.
Increments == SumTo(idone, NumIncrementers)

\* Every goroutine has executed all its x++.
AllIncremented == \A g \in Incrementers : ipc[g] = "done"

\* C22: with each x++ between mu.Lock() and mu.Unlock(), x counts the
\* completed x++ whenever mu is unlocked, so the final x is the number of
\* increments in every interleaving; without synchronization updates can
\* only be lost: x never exceeds the number of completed x++.
C22_MutexKeepsEveryIncrement ==
    /\ synced /\ mu = 0 => sharedX = Increments
    /\ synced /\ AllIncremented => sharedX = NumIncrementers * IncsEach
    /\ ~synced => sharedX <= Increments

\* C22's other half: without synchronization there is an interleaving whose
\* final x is less than the number of increments executed.
C22_Witness ==
    /\ ~synced
    /\ AllIncremented
    /\ sharedX < NumIncrementers * IncsEach

----------------------------------------------------------------------------
\* Important beginner issue: func main() { go fmt.Println("hello") }

\* The most go statements main has.
NumPrinters == 4

Printers == 1..NumPrinters

\* The variables the printing program leaves alone.
notHelloVars == <<vars, deferVars, processVars, chanVars, wgVars, incVars, mapVars, counterVars, sliceVars, layoutVars>>

\* main() starts.
InitHello ==
    /\ hn \in 1..NumPrinters
    /\ hmain = "go"
    /\ hstarted = 0
    /\ hg = [p \in Printers |-> "none"]
    /\ hout = <<>>
    /\ RcIdle
    /\ DeferIdle
    /\ ProcessIdle
    /\ ChanIdle
    /\ WgIdle
    /\ IncIdle
    /\ MapIdle
    /\ CounterIdle
    /\ SliceIdle
    /\ LayoutIdle

\* go fmt.Println("hello") creates a goroutine; it is scheduled, not executed
\* immediately, and main goes on.
mainGo ==
    /\ hmain = "go"
    /\ hstarted' = hstarted + 1
    /\ hg' = [hg EXCEPT ![hstarted + 1] = "runnable"]
    /\ hmain' = IF hstarted + 1 < hn THEN "go" ELSE "return"
    /\ UNCHANGED <<hn, hout>>
    /\ UNCHANGED notHelloVars

\* main() finishes: the program exits and the runtime kills every goroutine
\* that has not finished.
mainReturn ==
    /\ hmain = "return"
    /\ hmain' = "exited"
    /\ hg' = [p \in Printers |->
                IF hg[p] \in {"runnable", "running"} THEN "killed" ELSE hg[p]]
    /\ UNCHANGED <<hn, hstarted, hout>>
    /\ UNCHANGED notHelloVars

\* The scheduler gives the goroutine CPU time.
goSchedule(p) ==
    /\ hmain # "exited"
    /\ hg[p] = "runnable"
    /\ hg' = [hg EXCEPT ![p] = "running"]
    /\ UNCHANGED <<hn, hmain, hstarted, hout>>
    /\ UNCHANGED notHelloVars

\* fmt.Println("hello") as a bug would have it: the goroutine outlives main.
goPrintlnAfterExit(p) ==
    /\ hg[p] \in {"running", "killed"}
    /\ hout' = Append(hout, "hello")
    /\ hg' = [hg EXCEPT ![p] = "printed"]
    /\ UNCHANGED <<hn, hmain, hstarted>>
    /\ UNCHANGED notHelloVars

\* fmt.Println("hello") in the goroutine.
goPrintln(p) ==
    /\ hmain # "exited"
    /\ hg[p] = "running"
    /\ hout' = Append(hout, "hello")
    /\ hg' = [hg EXCEPT ![p] = "printed"]
    /\ UNCHANGED <<hn, hmain, hstarted>>
    /\ UNCHANGED notHelloVars

NextHello ==
    \/ mainGo
    \/ mainReturn
    \/ \E p \in Printers : goSchedule(p)
    \/ \E p \in Printers : goPrintln(p)

\* main and the goroutines it creates, scheduled in any order.
HelloSpec == InitHello /\ [][NextHello]_allVars

\* The goroutines that have printed.
Printed == {p \in Printers : hg[p] = "printed"}

\* C23: main does not wait for its goroutines. Once main has finished the
\* program has terminated: every goroutine has printed or was killed, there
\* is one "hello" for each goroutine that printed, and nothing is printed
\* any more, so a "hello" not printed by then is never printed.
C23_NothingPrintedAfterExit ==
    /\ [](hmain = "exited" =>
            /\ \A p \in 1..hstarted : hg[p] \in {"printed", "killed"}
            /\ Len(hout) = Cardinality(Printed))
    /\ [][hmain = "exited" => hout' = hout /\ hg' = hg]_allVars

\* C23's case: the main of the notes, with its one go statement, has
\* finished, the program has terminated, the goroutine was killed before it
\* ran, and "hello" was not printed.
C23_Witness ==
    /\ hn = 1
    /\ hmain = "exited"
    /\ hg[1] = "killed"
    /\ hout = <<>>

----------------------------------------------------------------------------
\* Concurrency Warning: go func() { m["a"] = 1 }(); go func() { m["b"] = 2 }()

\* The goroutines that write to m, and the writes of each; goroutine g
\* writes to its own key.
NumMapWriters == 2
MapWritesEach == 2

MapWriters == 1..NumMapWriters

\* The variables the map writers leave alone.
notMapVars == <<vars, deferVars, processVars, chanVars, wgVars, incVars, helloVars, counterVars, sliceVars, layoutVars>>

\* Where a goroutine is before a write.
MapEntry == IF msynced THEN "lock" ELSE "check"

\* Where a goroutine is after n writes.
MapAfter(n) == IF n < MapWritesEach THEN MapEntry ELSE "done"

\* m is empty and the goroutines are about to write to it, all with the
\* mutex or all without.
InitMap ==
    /\ msynced \in BOOLEAN
    /\ mapm = [k \in MapWriters |-> 0]
    /\ mwriting = FALSE
    /\ mmu = 0
    /\ mpc = [g \in MapWriters |-> MapEntry]
    /\ mdone = [g \in MapWriters |-> 0]
    /\ mfatal = FALSE
    /\ RcIdle
    /\ DeferIdle
    /\ ProcessIdle
    /\ ChanIdle
    /\ WgIdle
    /\ IncIdle
    /\ HelloIdle
    /\ CounterIdle
    /\ SliceIdle
    /\ LayoutIdle

\* mu.Lock() as a bug would have it: each goroutine locks a mutex of its own.
mapLockOwnMutex(g) ==
    /\ ~mfatal
    /\ mpc[g] = "lock"
    /\ mpc' = [mpc EXCEPT ![g] = "check"]
    /\ UNCHANGED <<msynced, mapm, mwriting, mmu, mdone, mfatal>>
    /\ UNCHANGED notMapVars

\* mu.Lock(): blocks while another goroutine holds mu.
mapLock(g) ==
    /\ ~mfatal
    /\ mpc[g] = "lock"
    /\ mmu = 0
    /\ mmu' = g
    /\ mpc' = [mpc EXCEPT ![g] = "check"]
    /\ UNCHANGED <<msynced, mapm, mwriting, mdone, mfatal>>
    /\ UNCHANGED notMapVars

\* m[k] = v begins: the runtime finds a write in progress and the program
\* dies with "fatal error: concurrent map writes", or it finds none.
mapCheck(g) ==
    /\ ~mfatal
    /\ mpc[g] = "check"
    /\ mfatal' = mwriting
    /\ mpc' = [mpc EXCEPT ![g] = IF mwriting THEN @ ELSE "flag"]
    /\ UNCHANGED <<msynced, mapm, mwriting, mmu, mdone>>
    /\ UNCHANGED notMapVars

\* m[k] = v: the runtime flips the flag "a write is in progress".
mapFlag(g) ==
    /\ ~mfatal
    /\ mpc[g] = "flag"
    /\ mwriting' = ~mwriting
    /\ mpc' = [mpc EXCEPT ![g] = "store"]
    /\ UNCHANGED <<msynced, mapm, mmu, mdone, mfatal>>
    /\ UNCHANGED notMapVars

\* m[k] = v: the value is stored.
mapStore(g) ==
    /\ ~mfatal
    /\ mpc[g] = "store"
    /\ mapm' = [mapm EXCEPT ![g] = mdone[g] + 1]
    /\ mpc' = [mpc EXCEPT ![g] = "finish"]
    /\ UNCHANGED <<msynced, mwriting, mmu, mdone, mfatal>>
    /\ UNCHANGED notMapVars

\* m[k] = v ends: the runtime finds its flag gone and the program dies with
\* "fatal error: concurrent map writes", or it clears the flag.
mapFinish(g) ==
    /\ ~mfatal
    /\ mpc[g] = "finish"
    /\ mfatal' = ~mwriting
    /\ mwriting' = FALSE
    /\ mdone' = [mdone EXCEPT ![g] = IF ~mwriting THEN @ ELSE @ + 1]
    /\ mpc' = [mpc EXCEPT ![g] =
                 IF ~mwriting THEN @
                 ELSE IF msynced THEN "unlock" ELSE MapAfter(mdone[g] + 1)]
    /\ UNCHANGED <<msynced, mapm, mmu>>
    /\ UNCHANGED notMapVars

\* mu.Unlock()
mapUnlock(g) ==
    /\ ~mfatal
    /\ mpc[g] = "unlock"
    /\ mmu' = 0
    /\ mpc' = [mpc EXCEPT ![g] = MapAfter(mdone[g])]
    /\ UNCHANGED <<msynced, mapm, mwriting, mdone, mfatal>>
    /\ UNCHANGED notMapVars

NextMap ==
    \E g \in MapWriters :
        \/ mapLock(g)
        \/ mapCheck(g)
        \/ mapFlag(g)
        \/ mapStore(g)
        \/ mapFinish(g)
        \/ mapUnlock(g)

\* The goroutines writing to m, scheduled in any order.
MapSpec == InitMap /\ [][NextMap]_allVars

\* The goroutines inside m[k] = v.
InMapAssign == {g \in MapWriters : mpc[g] \in {"check", "flag", "store", "finish"}}

\* C24: when every write to the map is enclosed in mu.Lock()/mu.Unlock() of
\* one shared mutex, at most one goroutine is inside a write, and the fatal
\* error "concurrent map writes" never happens; the error happens only to
\* writes without synchronization.
C24_MutexPreventsConcurrentMapWrites ==
    /\ msynced => ~mfatal /\ Cardinality(InMapAssign) <= 1
    /\ mfatal => ~msynced /\ Cardinality(InMapAssign) >= 2

\* C24's other half: two goroutines wrote to the map without
\* synchronization and the program died of "concurrent map writes".
C24_Witness ==
    /\ ~msynced
    /\ mfatal
    /\ Cardinality(InMapAssign) = 2

----------------------------------------------------------------------------
\* Closures: func counter() func() int

\* The most calls of counter(), and the most calls of each closure.
MaxClosures == 3
MaxCalls == 4

\* The variables the closures leave alone.
notCounterVars == <<vars, deferVars, processVars, chanVars, wgVars, incVars, helloVars, mapVars, sliceVars, layoutVars>>

\* main starts: no closure exists.
InitCounter ==
    /\ cells = <<>>
    /\ cenv = <<>>
    /\ creturns = <<>>
    /\ RcIdle
    /\ DeferIdle
    /\ ProcessIdle
    /\ ChanIdle
    /\ WgIdle
    /\ IncIdle
    /\ HelloIdle
    /\ MapIdle
    /\ SliceIdle
    /\ LayoutIdle

\* The closures created so far.
Closures == 1..Len(cenv)

\* counter() as a bug would have it: count is one variable of the package,
\* reset by each call and captured by every closure.
counterGlobalCount ==
    /\ Len(cenv) < MaxClosures
    /\ cells' = <<0>>
    /\ cenv' = Append(cenv, 1)
    /\ creturns' = Append(creturns, <<>>)
    /\ UNCHANGED notCounterVars

\* c := counter(): count := 0 creates a new variable, and the function
\* returned captures it.
counter ==
    /\ Len(cenv) < MaxClosures
    /\ cells' = Append(cells, 0)
    /\ cenv' = Append(cenv, Len(cells) + 1)
    /\ creturns' = Append(creturns, <<>>)
    /\ UNCHANGED notCounterVars

\* c(): count++; return count, on the variable the closure captured.
closureCall(c) ==
    /\ Len(creturns[c]) < MaxCalls
    /\ cells' = [cells EXCEPT ![cenv[c]] = @ + 1]
    /\ creturns' = [creturns EXCEPT ![c] = Append(@, cells[cenv[c]] + 1)]
    /\ UNCHANGED cenv
    /\ UNCHANGED notCounterVars

NextCounter ==
    \/ counter
    \/ \E c \in Closures : closureCall(c)

\* main calling counter() and the closures it returned, in any order.
CounterSpec == InitCounter /\ [][NextCounter]_allVars

\* C26: each closure has a count of its own: the k-th call of a closure
\* returns k, and a call of one closure changes neither the count nor the
\* returned values of a closure from another counter() call.
C26_OwnCountPerClosure ==
    /\ [](\A c \in Closures :
            /\ \A k \in 1..Len(creturns[c]) : creturns[c][k] = k
            /\ cells[cenv[c]] = Len(creturns[c])
            /\ \A d \in Closures : d # c => cenv[d] # cenv[c])
    /\ [][\A c \in Closures : \A d \in Closures :
            d # c /\ closureCall(d) =>
                /\ creturns'[c] = creturns[c]
                /\ cells'[cenv[c]] = cells[cenv[c]]]_allVars

\* C26's case: the closure of the notes has returned 1, 2, 3 while a
\* closure from another counter() call has been called in between.
C26_Witness ==
    /\ Len(cenv) >= 2
    /\ creturns[1] = <<1, 2, 3>>
    /\ creturns[2] = <<1, 2>>

----------------------------------------------------------------------------
\* Tricky Slices: i := make([]int, 3, 5); j := append(i, 4); g := append(i, 5)

\* The len and cap of i in the example, and the most appends executed.
SliceLen == 3
SliceCap == 5
MaxAppends == 2

\* The slice variables of the example and the values it appends.
SliceNames == {"i", "j", "g"}
AppendValues == {4, 5}

\* A slice variable that has not been assigned.
NoSlice == [arr |-> 0, len |-> 0, cap |-> 0]

\* The variables the slices leave alone.
notSliceVars == <<vars, deferVars, processVars, chanVars, wgVars, incVars, helloVars, mapVars, counterVars, layoutVars>>

\* i := make([]int, n, c); i[0], i[1], ... = 1, 2, ...: one array of c
\* elements, the first n set, the others zero.
InitSlice ==
    /\ \E n \in 0..SliceLen : \E c \in n..SliceCap :
        /\ c >= 1
        /\ arrays = <<[k \in 1..c |-> IF k <= n THEN k ELSE 0]>>
        /\ svars = [s \in SliceNames |->
                      IF s = "i" THEN [arr |-> 1, len |-> n, cap |-> c]
                      ELSE NoSlice]
    /\ sops = <<>>
    /\ RcIdle
    /\ DeferIdle
    /\ ProcessIdle
    /\ ChanIdle
    /\ WgIdle
    /\ IncIdle
    /\ HelloIdle
    /\ MapIdle
    /\ CounterIdle
    /\ LayoutIdle

\* The elements of a slice: the first len elements of its array.
View(h) == SubSeq(arrays[h.arr], 1, h.len)

\* The capacity append() gives the new array when cap is exceeded.
GrowCap(cap) == IF cap = 0 THEN 1 ELSE 2 * cap

\* append(src, v) as a bug would have it: it always allocates a new array.
sliceAppendCopies(dst, src, v) ==
    /\ Len(sops) < MaxAppends
    /\ svars[src] # NoSlice
    /\ LET h == svars[src] IN
        /\ arrays' = Append(arrays,
                       [k \in 1..GrowCap(h.cap) |->
                          IF k <= h.len THEN arrays[h.arr][k]
                          ELSE IF k = h.len + 1 THEN v ELSE 0])
        /\ svars' = [svars EXCEPT ![dst] =
                       [arr |-> Len(arrays) + 1, len |-> h.len + 1,
                        cap |-> GrowCap(h.cap)]]
    /\ sops' = Append(sops, <<dst, src, v>>)
    /\ UNCHANGED notSliceVars

\* dst := append(src, v): with enough capacity v is written into the array
\* of src, behind its last element; if the capacity is exceeded a new array
\* is allocated, the elements are copied and v is written behind them.
sliceAppend(dst, src, v) ==
    /\ Len(sops) < MaxAppends
    /\ svars[src] # NoSlice
    /\ LET h == svars[src] IN
        IF h.len < h.cap
        THEN /\ arrays' = [arrays EXCEPT ![h.arr][h.len + 1] = v]
             /\ svars' = [svars EXCEPT ![dst] =
                            [arr |-> h.arr, len |-> h.len + 1, cap |-> h.cap]]
        ELSE /\ arrays' = Append(arrays,
                            [k \in 1..GrowCap(h.cap) |->
                               IF k <= h.len THEN arrays[h.arr][k]
                               ELSE IF k = h.len + 1 THEN v ELSE 0])
             /\ svars' = [svars EXCEPT ![dst] =
                            [arr |-> Len(arrays) + 1, len |-> h.len + 1,
                             cap |-> GrowCap(h.cap)]]
    /\ sops' = Append(sops, <<dst, src, v>>)
    /\ UNCHANGED notSliceVars

NextSlice ==
    \E dst \in SliceNames : \E src \in SliceNames : \E v \in AppendValues :
        sliceAppend(dst, src, v)

\* The slice i and appends to the slices, in any order.
SliceSpec == InitSlice /\ [][NextSlice]_allVars

\* The example: i has len 3 and cap 5 and holds 1, 2, 3, and
\* j := append(i, 4); g := append(i, 5) have been executed.
TrickyExample ==
    /\ svars["i"] = [arr |-> 1, len |-> SliceLen, cap |-> SliceCap]
    /\ sops = << <<"j", "i", 4>>, <<"g", "i", 5>> >>

\* C27: an append that does not exceed the capacity reuses the array of its
\* source and writes behind the source's last element, so it overwrites what
\* an earlier append to the same slice wrote there: in the example i is
\* [1 2 3] and both j and g are [1 2 3 5].
C27_AppendReusesArray ==
    /\ [](TrickyExample =>
            /\ View(svars["i"]) = <<1, 2, 3>>
            /\ View(svars["j"]) = <<1, 2, 3, 5>>
            /\ View(svars["g"]) = <<1, 2, 3, 5>>)
    /\ [][\A dst \in SliceNames : \A src \in SliceNames : \A v \in AppendValues :
            sliceAppend(dst, src, v) /\ svars[src].len < svars[src].cap =>
                /\ Len(arrays') = Len(arrays)
                /\ svars'[dst].arr = svars[src].arr
                /\ arrays'[svars[src].arr][svars[src].len + 1] = v
                /\ \A t \in SliceNames \ {dst} :
                     /\ svars[t].arr = svars[src].arr
                     /\ svars[t].len > svars[src].len
                     => View(svars[t])'[svars[src].len + 1] = v]_allVars

\* C27's case: the two appends of the example have been executed and j, which
\* was [1 2 3 4], shares its array with g.
C27_Witness ==
    /\ TrickyExample
    /\ svars["j"].arr = svars["g"].arr
    /\ View(svars["j"])[4] = 5

----------------------------------------------------------------------------
\* Memory Layout: unsafe.Sizeof(stats{})

\* The most fields of a struct.
MaxFields == 3

\* The field types of the notes, with their sizes in bytes; the alignment of
\* each is its size.
FieldTypes == {"bool", "uint8", "uint16", "int64"}
SizeOf(t) == CASE t = "bool" -> 1 [] t = "uint8" -> 1
               [] t = "uint16" -> 2 [] t = "int64" -> 8
AlignOf(t) == SizeOf(t)

\* The size of a struct that has not been laid out.
NoSize == -1

\* The structs of at most MaxFields fields.
Structs == UNION {[1..n -> FieldTypes] : n \in 1..MaxFields}

\* The variables the layout leaves alone.
notLayoutVars == <<vars, deferVars, processVars, chanVars, wgVars, incVars, helloVars, mapVars, counterVars, sliceVars>>

\* A struct type is declared.
InitLayout ==
    /\ sfields \in Structs
    /\ soffsets = <<>>
    /\ ssize = NoSize
    /\ RcIdle
    /\ DeferIdle
    /\ ProcessIdle
    /\ ChanIdle
    /\ WgIdle
    /\ IncIdle
    /\ HelloIdle
    /\ MapIdle
    /\ CounterIdle
    /\ SliceIdle

\* Alignment as a bug would have it: no padding.
AlignUpPacked(off, a) == off

\* The first multiple of a that is not below off.
AlignUp(off, a) == ((off + a - 1) \div a) * a

\* The first byte after the fields laid out so far.
EndOfFields ==
    IF soffsets = <<>> THEN 0
    ELSE soffsets[Len(soffsets)] + SizeOf(sfields[Len(soffsets)])

RECURSIVE MaxAlign(_, _)
\* The largest alignment among the first n fields.
MaxAlign(fields, n) ==
    IF n = 0 THEN 1
    ELSE LET m == MaxAlign(fields, n - 1) IN
         IF AlignOf(fields[n]) > m THEN AlignOf(fields[n]) ELSE m

\* The next field is placed at the first offset, after the fields before it,
\* that its alignment allows.
layoutField ==
    /\ ssize = NoSize
    /\ Len(soffsets) < Len(sfields)
    /\ soffsets' = Append(soffsets,
                     AlignUp(EndOfFields, AlignOf(sfields[Len(soffsets) + 1])))
    /\ UNCHANGED <<sfields, ssize>>
    /\ UNCHANGED notLayoutVars

\* All fields are placed: the size is the end of the last field, padded to
\* the largest alignment of the fields.
layoutSize ==
    /\ ssize = NoSize
    /\ Len(soffsets) = Len(sfields)
    /\ ssize' = AlignUp(EndOfFields, MaxAlign(sfields, Len(sfields)))
    /\ UNCHANGED <<sfields, soffsets>>
    /\ UNCHANGED notLayoutVars

NextLayout == layoutField \/ layoutSize

\* The layout of one struct type of the bounded set.
LayoutSpec == InitLayout /\ [][NextLayout]_allVars

\* type stats struct { Reach uint16; NumPosts uint8; NumLikes uint8 }, and
\* the same fields in the order NumPosts, Reach, NumLikes.
StatsFields == <<"uint16", "uint8", "uint8">>
StatsFieldsReordered == <<"uint8", "uint16", "uint8">>

\* C28: the size of stats with the fields in the order Reach, NumPosts,
\* NumLikes is 4 bytes, and in the order NumPosts, Reach, NumLikes it is 6
\* bytes, because of the padding that alignment needs.
C28_StatsSize ==
    ssize # NoSize =>
        /\ sfields = StatsFields => ssize = 4 /\ soffsets = <<0, 2, 3>>
        /\ sfields = StatsFieldsReordered => ssize = 6 /\ soffsets = <<0, 2, 4>>

\* C28's case: the struct with the order NumPosts, Reach, NumLikes has been
\* laid out, with a byte of padding after NumPosts and after NumLikes.
C28_Witness ==
    /\ sfields = StatsFieldsReordered
    /\ ssize = 6
====
